---- MODULE Spec2Model ----
(***************************************************************************)
(* Model of the theme-manager-plus apply engine (rust/src): the atomic     *)
(* theme swap of cmd_set, cmd_next, the waybar and starship appliers and   *)
(* the resolution of the per-subsystem modes, over an explicit file-system *)
(* value (a function from absolute paths to nodes).                        *)
(***************************************************************************)
EXTENDS Integers, Sequences, FiniteSets, TLC

(***************************************************************************)
(* Bounds of the model.                                                    *)
(***************************************************************************)
MaxCmds == 2
MaxClock == 1
Fuel == 3

(***************************************************************************)
(* File-system nodes.  A file's content is a sequence of lines.  A link    *)
(* keeps its target verbatim: absolute (rel = FALSE) or relative to the    *)
(* directory holding the link (rel = TRUE).                                *)
(***************************************************************************)
DirNode == [k |-> "dir", c |-> <<>>, t |-> <<>>, rel |-> FALSE]
FileNode(c) == [k |-> "file", c |-> c, t |-> <<>>, rel |-> FALSE]
LinkNode(t) == [k |-> "link", c |-> <<>>, t |-> t, rel |-> FALSE]
RelLinkNode(t) == [k |-> "link", c |-> <<>>, t |-> t, rel |-> TRUE]

NoPath == <<"//">>
EmptyFs == [p \in {} |-> DirNode]

Parent(p) == SubSeq(p, 1, Len(p) - 1)
Last(p) == p[Len(p)]
IsPrefix(p, q) == Len(p) <= Len(q) /\ SubSeq(q, 1, Len(p)) = p
Suffix(q, p) == SubSeq(q, Len(p) + 1, Len(q))
Under(f, p) == {q \in DOMAIN f : IsPrefix(p, q)}
Children(f, p) == {q \in DOMAIN f : Len(q) = Len(p) + 1 /\ IsPrefix(p, q)}
Has(f, p) == p = <<>> \/ p \in DOMAIN f
At(f, p) == IF p = <<>> THEN DirNode ELSE f[p]
LinkTarget(f, p) == IF f[p].rel THEN Parent(p) \o f[p].t ELSE f[p].t

(* Path resolution as the kernel does it: every symlink met on the way is  *)
(* followed; the result is the real path (which may name a missing last    *)
(* component of an existing directory) or NoPath.                          *)
RECURSIVE Canon(_, _, _, _)
Canon(f, done, rest, fuel) ==
  IF rest = <<>> THEN done
  ELSE LET p == Append(done, Head(rest)) IN
    IF p \notin DOMAIN f THEN (IF Len(rest) = 1 THEN p ELSE NoPath)
    ELSE IF f[p].k = "link"
      THEN (IF fuel = 0 THEN NoPath
            ELSE Canon(f, <<>>, LinkTarget(f, p) \o Tail(rest), fuel - 1))
    ELSE IF f[p].k = "dir" THEN Canon(f, p, Tail(rest), fuel)
    ELSE IF Len(rest) = 1 THEN p ELSE NoPath

(* Bind(v, K) is K applied to the value v: a result that is used more     *)
(* than once is computed once and handed on.                               *)
Bind(v, K(_)) == K(v)

(* The kind of the node at a real path: "absent" when there is none. *)
KindAt(f, r) == IF r # NoPath /\ Has(f, r) THEN At(f, r).k ELSE "absent"

RealPath(f, p) == Canon(f, <<>>, p, Fuel)
LRealPath(f, p) ==
  IF p = <<>> THEN <<>>
  ELSE Bind(RealPath(f, Parent(p)),
            LAMBDA d : IF KindAt(f, d) = "dir" THEN Append(d, Last(p)) ELSE NoPath)

(* std::path::Path::exists / is_dir / is_file follow links; symlink_metadata does not. *)
exists(f, p) == KindAt(f, RealPath(f, p)) # "absent"
is_dir(f, p) == KindAt(f, RealPath(f, p)) = "dir"
is_file(f, p) == KindAt(f, RealPath(f, p)) = "file"
LKind(f, p) == KindAt(f, LRealPath(f, p))
lexists(f, p) == LKind(f, p) # "absent"
read_to_string(f, p) == At(f, RealPath(f, p)).c

(* The tree below p, by relative path (<<>> is the node at p itself). *)
RelTree(f, p) == [r \in {Suffix(q, p) : q \in Under(f, p)} |-> f[p \o r]]

Without(f, p) == [q \in DOMAIN f \ Under(f, p) |-> f[q]]
Put(f, p, n) == (p :> n) @@ f

(* fs::remove_dir_all / fs::remove_file on an lstat-resolved path. *)
remove_path(f, p) == Without(f, LRealPath(f, p))

(* rename(2): a whole subtree moves in one step.  The result is ok = FALSE *)
(* (and nothing changed) for EISDIR, ENOTDIR, ENOTEMPTY, EINVAL, ENOENT.   *)
RenameAt(f, a, b) ==
  LET bad == \/ a = NoPath \/ b = NoPath \/ ~Has(f, a) \/ a = <<>>
             \/ (a # b /\ IsPrefix(a, b))
             \/ (Has(f, b) /\ a # b /\
                  \/ (f[a].k = "dir" /\ f[b].k # "dir")
                  \/ (f[a].k # "dir" /\ f[b].k = "dir")
                  \/ (f[b].k = "dir" /\ Children(f, b) # {}))
      keep == {q \in DOMAIN f : ~IsPrefix(a, q) /\ ~IsPrefix(b, q)}
      moved == {b \o Suffix(q, a) : q \in Under(f, a)}
  IN IF bad THEN [ok |-> FALSE, fs |-> f]
     ELSE IF a = b THEN [ok |-> TRUE, fs |-> f]
     ELSE [ok |-> TRUE,
           fs |-> [q \in keep \cup moved |->
                     IF IsPrefix(b, q) THEN f[a \o Suffix(q, b)] ELSE f[q]]]
rename(f, from, to) == RenameAt(f, LRealPath(f, from), LRealPath(f, to))

(* fs::create_dir_all: every missing component becomes a directory; a      *)
(* dangling link on the way is an error (mkdir gives EEXIST).              *)
RECURSIVE MkdirFrom(_, _, _)
MkdirFrom(f, p, i) ==
  IF i > Len(p) THEN [ok |-> TRUE, fs |-> f]
  ELSE Bind(RealPath(f, SubSeq(p, 1, i)), LAMBDA q :
    IF q = NoPath THEN [ok |-> FALSE, fs |-> f]
    ELSE IF ~Has(f, q)
      THEN (IF lexists(f, SubSeq(p, 1, i)) THEN [ok |-> FALSE, fs |-> f]
            ELSE MkdirFrom(Put(f, q, DirNode), p, i + 1))
    ELSE IF At(f, q).k = "dir" THEN MkdirFrom(f, p, i + 1)
    ELSE [ok |-> FALSE, fs |-> f])
create_dir_all(f, p) == MkdirFrom(f, p, 1)

(* std::os::unix::fs::symlink(target, link): EEXIST when link exists. *)
symlink(f, target, link) ==
  Bind(LRealPath(f, link), LAMBDA l :
    IF l = NoPath \/ Has(f, l) THEN [ok |-> FALSE, fs |-> f]
    ELSE [ok |-> TRUE, fs |-> Put(f, l, LinkNode(target))])

(* fs::write(path, lines): follows a link at path, truncates or creates. *)
WriteAt(f, d, lines) ==
  IF d = NoPath \/ d = <<>> \/ (Has(f, d) /\ f[d].k # "file") THEN [ok |-> FALSE, fs |-> f]
  ELSE [ok |-> TRUE, fs |-> Put(f, d, FileNode(lines))]
write(f, p, lines) == WriteAt(f, RealPath(f, p), lines)

(* fs::copy(from, to): opens `from` for reading, then creates/truncates    *)
(* `to` (following links) and copies the bytes; copying a file onto itself *)
(* therefore leaves it empty.                                              *)
CopyAt(f, s, d) ==
  IF KindAt(f, s) # "file" THEN [ok |-> FALSE, fs |-> f]
  ELSE IF s = d THEN [ok |-> TRUE, fs |-> Put(f, d, FileNode(<<>>))]
  ELSE WriteAt(f, d, f[s].c)
copy(f, from, to) == CopyAt(f, RealPath(f, from), RealPath(f, to))


(***************************************************************************)
(* Theme names.  A name is a string; its characters are listed here so     *)
(* that normalisation and byte-wise ordering are computed character by     *)
(* character, as the code does.                                            *)
(***************************************************************************)
NameChars ==
  [alpha |-> <<"a", "l", "p", "h", "a">>,
   bravo |-> <<"b", "r", "a", "v", "o">>,
   Bravo |-> <<"B", "r", "a", "v", "o">>,
   charlie |-> <<"c", "h", "a", "r", "l", "i", "e">>,
   ghost |-> <<"g", "h", "o", "s", "t">>,
   tag |-> <<"<", "b", ">">>,
   empty |-> <<>>]
Names == DOMAIN NameChars
Str(cs) == CHOOSE s \in Names : NameChars[s] = cs

Code ==
  [x \in {" ", "-", "<", ">", "B", "a", "b", "c", "e", "g", "h", "i", "l", "o", "p",
          "r", "s", "t", "v"} |->
     CASE x = " " -> 32 [] x = "-" -> 45 [] x = "<" -> 60 [] x = ">" -> 62
       [] x = "B" -> 66 [] x = "a" -> 97 [] x = "b" -> 98 [] x = "c" -> 99
       [] x = "e" -> 101 [] x = "g" -> 103 [] x = "h" -> 104 [] x = "i" -> 105
       [] x = "l" -> 108 [] x = "o" -> 111 [] x = "p" -> 112 [] x = "r" -> 114
       [] x = "s" -> 115 [] x = "t" -> 116 [] x = "v" -> 118]

to_lowercase(ch) == IF Code[ch] >= 65 /\ Code[ch] <= 90
                    THEN CHOOSE l \in DOMAIN Code : Code[l] = Code[ch] + 32
                    ELSE ch

RECURSIVE StripTags(_, _)
StripTags(cs, in_tag) ==
  IF cs = <<>> THEN <<>>
  ELSE IF Head(cs) = "<" THEN StripTags(Tail(cs), TRUE)
  ELSE IF Head(cs) = ">" THEN StripTags(Tail(cs), FALSE)
  ELSE IF in_tag THEN StripTags(Tail(cs), in_tag)
  ELSE <<Head(cs)>> \o StripTags(Tail(cs), in_tag)

RECURSIVE TrimStart(_)
TrimStart(cs) == IF cs # <<>> /\ Head(cs) = " " THEN TrimStart(Tail(cs)) ELSE cs
RECURSIVE TrimEnd(_)
TrimEnd(cs) == IF cs # <<>> /\ cs[Len(cs)] = " " THEN TrimEnd(SubSeq(cs, 1, Len(cs) - 1)) ELSE cs

NormalizeChars(cs) ==
  LET t == TrimEnd(TrimStart(StripTags(cs, FALSE)))
  IN [i \in 1..Len(t) |-> IF t[i] = " " THEN "-" ELSE to_lowercase(t[i])]

normalize_theme_name(input) == Str(NormalizeChars(NameChars[input]))

(* Rust's Ord for String: byte-wise lexicographic. *)
RECURSIVE CharsLess(_, _)
CharsLess(a, b) ==
  IF b = <<>> THEN FALSE
  ELSE IF a = <<>> THEN TRUE
  ELSE IF Code[Head(a)] # Code[Head(b)] THEN Code[Head(a)] < Code[Head(b)]
  ELSE CharsLess(Tail(a), Tail(b))
NameLess(a, b) == CharsLess(NameChars[a], NameChars[b])

(* Vec::sort of a set of distinct names. *)
RECURSIVE SortNames(_)
SortNames(S) ==
  IF S = {} THEN <<>>
  ELSE LET m == CHOOSE x \in S : \A y \in S \ {x} : NameLess(x, y)
       IN <<m>> \o SortNames(S \ {m})

(* A path component for a name: the name "empty" is the empty string, and  *)
(* PathBuf::join("") adds no component.                                    *)
Join(dir, name) == IF NameChars[name] = <<>> THEN dir ELSE Append(dir, name)

(***************************************************************************)
(* ResolvedConfig::defaults: the paths of the engine (HOME-relative, the   *)
(* ".config" prefix left out).                                             *)
(***************************************************************************)
ThemeRootDir == <<"themes">>
CurrentThemeLink == <<"current", "theme">>
WaybarDir == <<"waybar">>
WaybarThemesDir == <<"waybar", "themes">>
StarshipConfig == <<"starship.toml">>
StarshipThemesDir == <<"starship-themes">>
OmarchyRoot == <<"omarchy">>
StagingDir == Append(Parent(CurrentThemeLink), "next-theme")
ThemeNameFile == Append(Parent(CurrentThemeLink), "theme.name")
WAYBAR_LINKS_FILE == ".theme-manager-waybar-links"
ManifestPath == Append(WaybarDir, WAYBAR_LINKS_FILE)

None == <<>>
Some(v) == <<v>>

(***************************************************************************)
(* paths.rs                                                                *)
(***************************************************************************)
is_symlink(f, p) == LKind(f, p) = "link"

(* Err is modelled as NoPath. *)
resolve_link_target(f, link_path) ==
  IF ~is_symlink(f, link_path)
  THEN (IF exists(f, link_path) THEN RealPath(f, link_path) ELSE NoPath)
  ELSE LinkTarget(f, LRealPath(f, link_path))

current_theme_dir(f, current_link) ==
  IF ~exists(f, current_link) THEN NoPath ELSE resolve_link_target(f, current_link)

(* Lines of a file with str::trim applied to the whole content: the model  *)
(* keeps theme.name as one line, so the name is that line, or "" if none.  *)
TrimmedName(lines) == IF lines = <<>> THEN "" ELSE lines[1]

current_theme_name(f, current_link) ==
  LET link_target_name ==
        IF is_symlink(f, current_link)
        THEN (LET t == resolve_link_target(f, current_link)
              IN IF t = <<>> THEN None ELSE Some(Last(t)))
        ELSE None
      name_path == Append(Parent(current_link), "theme.name")
      name == IF is_file(f, name_path) THEN TrimmedName(read_to_string(f, name_path)) ELSE ""
  IN IF is_file(f, name_path) /\ name # ""
     THEN (IF link_target_name # None /\ link_target_name[1] # name
           THEN link_target_name ELSE Some(name))
     ELSE IF link_target_name # None THEN link_target_name
     ELSE IF exists(f, current_link)
       THEN (IF Last(current_link) = "theme" THEN None ELSE Some(Last(current_link)))
     ELSE None

(***************************************************************************)
(* waybar.rs                                                               *)
(***************************************************************************)
timestamp_suffix(now) == ToString(now)

unique_backup_target(f, dir, name, now) ==
  LET candidate == Append(dir, name)
  IN IF ~exists(f, candidate) THEN candidate
     ELSE Append(dir, name \o "-" \o timestamp_suffix(now))

ensure_backup_dir(f, waybar_themes_dir, backup_dir, now) ==
  IF backup_dir # None THEN [ok |-> TRUE, fs |-> f, backup_dir |-> backup_dir]
  ELSE Bind(IF exists(f, Append(waybar_themes_dir, "existing"))
            THEN Append(waybar_themes_dir, "existing-" \o timestamp_suffix(now))
            ELSE Append(waybar_themes_dir, "existing"),
            LAMBDA chosen : Bind(create_dir_all(f, chosen), LAMBDA r :
              [ok |-> r.ok, fs |-> r.fs, backup_dir |-> IF r.ok THEN Some(chosen) ELSE None]))

replace_existing_path_unlinking(f, dest, name, waybar_themes_dir, backup_dir, now) ==
  IF ~lexists(f, dest) THEN [ok |-> TRUE, fs |-> f, backup_dir |-> backup_dir]
  ELSE [ok |-> TRUE, fs |-> remove_path(f, dest), backup_dir |-> backup_dir]

replace_existing_path(f, dest, name, waybar_themes_dir, backup_dir, now) ==
  IF ~lexists(f, dest) THEN [ok |-> TRUE, fs |-> f, backup_dir |-> backup_dir]
  ELSE IF is_symlink(f, dest)
    THEN [ok |-> TRUE, fs |-> remove_path(f, dest), backup_dir |-> backup_dir]
  ELSE Bind(ensure_backup_dir(f, waybar_themes_dir, backup_dir, now), LAMBDA b :
    IF ~b.ok THEN [ok |-> FALSE, fs |-> b.fs, backup_dir |-> b.backup_dir]
    ELSE Bind(rename(b.fs, dest, unique_backup_target(b.fs, b.backup_dir[1], name, now)),
              LAMBDA r : [ok |-> r.ok, fs |-> r.fs, backup_dir |-> b.backup_dir]))

replace_with_symlink(f, dest, source, name, waybar_themes_dir, backup_dir, now) ==
  Bind(replace_existing_path(f, dest, name, waybar_themes_dir, backup_dir, now), LAMBDA r :
    IF ~r.ok THEN r
    ELSE Bind(symlink(r.fs, source, dest),
              LAMBDA s : [ok |-> s.ok, fs |-> s.fs, backup_dir |-> r.backup_dir]))

(* The entries of a bundle that link_waybar_subdirs / copy_waybar_subdirs  *)
(* treat: not a marker file, and a directory or a link to one.             *)
BundleSubdirs(f, theme_waybar_dir) ==
  {n \in {Last(q) : q \in Children(f, RealPath(f, theme_waybar_dir))} :
     /\ n \notin {"config.jsonc", "style.css"}
     /\ is_dir(f, Append(theme_waybar_dir, n))}

RECURSIVE UnlinkManifest(_, _, _)
UnlinkManifest(f, waybar_dir, lines) ==
  IF lines = <<>> THEN f
  ELSE UnlinkManifest(
         IF Head(lines) # "" /\ is_symlink(f, Append(waybar_dir, Head(lines)))
         THEN remove_path(f, Append(waybar_dir, Head(lines))) ELSE f,
         waybar_dir, Tail(lines))

(* `let _ = fs::remove_file(path)`: unlink fails on a directory, ignored. *)
remove_file_ignore(f, p) == IF LKind(f, p) \in {"file", "link"} THEN remove_path(f, p) ELSE f

cleanup_waybar_links_manifest_only(f, waybar_dir) ==
  remove_file_ignore(f, Append(waybar_dir, WAYBAR_LINKS_FILE))

(* A cleanup that removes whatever the manifest names, symlink or not. *)
RECURSIVE RemoveManifest(_, _, _)
RemoveManifest(f, waybar_dir, lines) ==
  IF lines = <<>> THEN f
  ELSE RemoveManifest(
         IF Head(lines) # "" /\ lexists(f, Append(waybar_dir, Head(lines)))
         THEN remove_path(f, Append(waybar_dir, Head(lines))) ELSE f,
         waybar_dir, Tail(lines))
cleanup_waybar_links_removing_all(f, waybar_dir) ==
  IF ~is_file(f, Append(waybar_dir, WAYBAR_LINKS_FILE)) THEN f
  ELSE remove_file_ignore(
         RemoveManifest(f, waybar_dir, read_to_string(f, Append(waybar_dir, WAYBAR_LINKS_FILE))),
         Append(waybar_dir, WAYBAR_LINKS_FILE))

cleanup_waybar_links(f, waybar_dir) ==
  LET manifest_path == Append(waybar_dir, WAYBAR_LINKS_FILE) IN
  IF ~is_file(f, manifest_path) THEN f
  ELSE remove_file_ignore(
         UnlinkManifest(f, waybar_dir, read_to_string(f, manifest_path)), manifest_path)

RECURSIVE LinkSubdirLoop(_, _, _, _, _, _, _)
LinkSubdirLoop(f, theme_waybar_dir, waybar_dir, waybar_themes_dir, backup_dir, now, todo) ==
  IF todo = {} THEN [ok |-> TRUE, fs |-> f, linked |-> <<>>]
  ELSE Bind(CHOOSE n \in todo : TRUE, LAMBDA name :
    Bind(replace_with_symlink(f, Append(waybar_dir, name), Append(theme_waybar_dir, name),
                              name, waybar_themes_dir, backup_dir, now), LAMBDA r :
      IF ~r.ok THEN [ok |-> FALSE, fs |-> r.fs, linked |-> <<>>]
      ELSE Bind(LinkSubdirLoop(r.fs, theme_waybar_dir, waybar_dir, waybar_themes_dir,
                               r.backup_dir, now, todo \ {name}), LAMBDA rest :
             [ok |-> rest.ok, fs |-> rest.fs, linked |-> <<name>> \o rest.linked])))

link_waybar_subdirs(f, theme_waybar_dir, waybar_dir, waybar_themes_dir, backup_dir, now) ==
  Bind(LinkSubdirLoop(f, theme_waybar_dir, waybar_dir, waybar_themes_dir, backup_dir,
                      now, BundleSubdirs(f, theme_waybar_dir)), LAMBDA l :
    IF ~l.ok THEN [ok |-> FALSE, fs |-> l.fs]
    ELSE IF l.linked = <<>>
      THEN [ok |-> TRUE, fs |-> remove_file_ignore(l.fs, Append(waybar_dir, WAYBAR_LINKS_FILE))]
    ELSE write(l.fs, Append(waybar_dir, WAYBAR_LINKS_FILE), l.linked))

(* WalkDir over source (the root link followed, no other), each entry      *)
(* re-created below dest; the root itself is skipped, so dest comes into   *)
(* being only as the parent of a first entry.                              *)
CopyTreeAt(f, root, dest) ==
  LET ents == IF root = NoPath THEN {} ELSE Under(f, root) \ {root}
  IN IF ents = {} THEN f
     ELSE [q \in {dest} \cup {dest \o Suffix(e, root) : e \in ents} |->
             IF q = dest THEN DirNode ELSE f[root \o Suffix(q, dest)]] @@ f
copy_dir_recursive(f, source, dest) == CopyTreeAt(f, RealPath(f, source), dest)

RECURSIVE CopySubdirLoop(_, _, _, _, _, _, _)
CopySubdirLoop(f, theme_waybar_dir, waybar_dir, waybar_themes_dir, backup_dir, now, todo) ==
  IF todo = {} THEN [ok |-> TRUE, fs |-> f]
  ELSE Bind(CHOOSE n \in todo : TRUE, LAMBDA name :
    Bind(replace_existing_path(f, Append(waybar_dir, name), name, waybar_themes_dir,
                               backup_dir, now), LAMBDA r :
      IF ~r.ok THEN [ok |-> FALSE, fs |-> r.fs]
      ELSE CopySubdirLoop(copy_dir_recursive(r.fs, Append(theme_waybar_dir, name),
                                             Append(waybar_dir, name)),
                          theme_waybar_dir, waybar_dir, waybar_themes_dir,
                          r.backup_dir, now, todo \ {name})))

copy_waybar_subdirs(f, theme_waybar_dir, waybar_dir, waybar_themes_dir, backup_dir, now) ==
  CopySubdirLoop(f, theme_waybar_dir, waybar_dir, waybar_themes_dir, backup_dir, now,
                 BundleSubdirs(f, theme_waybar_dir))

RestartWaybar == Some("omarchy-restart-waybar")

(* `?`: the first failing step ends the function with that step's error. *)
Failed(r) == [ok |-> FALSE, fs |-> r.fs, restart |-> None]
Restarting(r) == [ok |-> r.ok, fs |-> r.fs, restart |-> IF r.ok THEN RestartWaybar ELSE None]

waybar_apply_copy(f, config_path, style_path, now) ==
  LET theme_waybar_dir == Parent(config_path)
      dest_config == Append(WaybarDir, "config.jsonc")
      dest_style == Append(WaybarDir, "style.css")
  IN Bind(create_dir_all(f, WaybarDir), LAMBDA d :
     IF ~d.ok THEN Failed(d) ELSE
     Bind(replace_existing_path(d.fs, dest_config, "config.jsonc", WaybarThemesDir, None, now),
          LAMBDA r1 :
     IF ~r1.ok THEN Failed(r1) ELSE
     Bind(replace_existing_path(r1.fs, dest_style, "style.css", WaybarThemesDir,
                                r1.backup_dir, now), LAMBDA r2 :
     IF ~r2.ok THEN Failed(r2) ELSE
     Bind(copy(r2.fs, config_path, dest_config), LAMBDA c1 :
     IF ~c1.ok THEN Failed(c1) ELSE
     Bind(copy(c1.fs, style_path, dest_style), LAMBDA c2 :
     IF ~c2.ok THEN Failed(c2) ELSE
     Restarting(copy_waybar_subdirs(c2.fs, theme_waybar_dir, WaybarDir, WaybarThemesDir,
                                    r2.backup_dir, now)))))))

waybar_apply_symlink(f, config_path, style_path, now) ==
  LET theme_waybar_dir == Parent(config_path)
      dest_config == Append(WaybarDir, "config.jsonc")
      dest_style == Append(WaybarDir, "style.css")
  IN Bind(create_dir_all(f, WaybarDir), LAMBDA d :
     IF ~d.ok THEN Failed(d) ELSE
     Bind(replace_with_symlink(d.fs, dest_config, config_path, "config.jsonc",
                               WaybarThemesDir, None, now), LAMBDA r1 :
     IF ~r1.ok THEN Failed(r1) ELSE
     Bind(replace_with_symlink(r1.fs, dest_style, style_path, "style.css",
                               WaybarThemesDir, r1.backup_dir, now), LAMBDA r2 :
     IF ~r2.ok THEN Failed(r2) ELSE
     Restarting(link_waybar_subdirs(r2.fs, theme_waybar_dir, WaybarDir, WaybarThemesDir,
                                    r2.backup_dir, now)))))

(* The bundle a waybar mode selects: None for "nothing to apply". *)
WaybarBundle(c, theme_dir) ==
  CASE c.waybar_mode = "None" -> None
    [] c.waybar_mode = "Auto" -> Some(Append(theme_dir, "waybar-theme"))
    [] c.waybar_mode = "Named" ->
         IF c.waybar_name = None THEN None
         ELSE Some(Append(WaybarThemesDir, c.waybar_name[1]))

WaybarBundleValid(f, bundle) ==
  /\ is_dir(f, bundle)
  /\ is_file(f, Append(bundle, "config.jsonc"))
  /\ is_file(f, Append(bundle, "style.css"))

prepare_waybar(f, c, theme_dir, now) ==
  LET b == WaybarBundle(c, theme_dir) IN
  IF b = None THEN [ok |-> TRUE, fs |-> f, restart |-> None]
  ELSE IF ~WaybarBundleValid(f, b[1]) THEN [ok |-> TRUE, fs |-> f, restart |-> None]
  ELSE IF c.waybar_apply_mode = "copy"
    THEN waybar_apply_copy(cleanup_waybar_links(f, WaybarDir),
                           Append(b[1], "config.jsonc"), Append(b[1], "style.css"), now)
    ELSE waybar_apply_symlink(cleanup_waybar_links(f, WaybarDir),
                              Append(b[1], "config.jsonc"), Append(b[1], "style.css"), now)

(***************************************************************************)
(* starship.rs                                                             *)
(***************************************************************************)
OMARCHY_DEFAULT_THEME_NAME == "omarchy-default"

omarchy_default_starship_theme_file(f) ==
  LET named_candidate == OmarchyRoot \o <<"default", "starship", "themes", "omarchy-default.toml">>
      direct_candidate == OmarchyRoot \o <<"default", "starship.toml">>
      nested_candidate == OmarchyRoot \o <<"default", "starship", "starship.toml">>
  IN IF is_file(f, named_candidate) THEN Some(named_candidate)
     ELSE IF is_file(f, direct_candidate) THEN Some(direct_candidate)
     ELSE IF is_file(f, nested_candidate) THEN Some(nested_candidate)
     ELSE None

starship_ensure_omarchy_default_theme_link(f) ==
  LET d == omarchy_default_starship_theme_file(f)
      link_path == Append(StarshipThemesDir, "omarchy-default.toml")
  IN IF d = None THEN [ok |-> TRUE, fs |-> f]
     ELSE IF exists(f, link_path) THEN [ok |-> TRUE, fs |-> f]
     ELSE Bind(create_dir_all(f, StarshipThemesDir),
               LAMBDA m : IF ~m.ok THEN m ELSE symlink(m.fs, d[1], link_path))

(* `starship preset <name>`: the command may be missing or fail; on        *)
(* success its output becomes the config.                                  *)
Io(r) == [ok |-> r.ok, fs |-> r.fs, msg |-> IF r.ok THEN "" ELSE "io"]
apply_preset(f, config_path, preset, starship_cmd) ==
  IF starship_cmd = "missing"
  THEN [ok |-> FALSE, fs |-> f, msg |-> "starship not found in PATH"]
  ELSE IF starship_cmd # "ok"
  THEN [ok |-> FALSE, fs |-> f, msg |-> "failed to apply starship preset " \o preset]
  ELSE Io(write(f, config_path, <<"preset:" \o preset>>))

(* PathBuf::set_extension("toml") when the name has no extension. *)
StarshipThemeFile(name) == name \o ".toml"

(* An apply_named that treats a missing theme file as nothing to do. *)
apply_named_lenient(f, config_path, themes_dir, name) ==
  IF ~is_file(f, Append(themes_dir, StarshipThemeFile(name)))
  THEN [ok |-> TRUE, fs |-> f, msg |-> ""]
  ELSE Io(copy(f, Append(themes_dir, StarshipThemeFile(name)), config_path))

apply_named(f, config_path, themes_dir, name) ==
  LET theme_path == Append(themes_dir, StarshipThemeFile(name)) IN
  IF ~is_file(f, theme_path)
  THEN [ok |-> FALSE, fs |-> f, msg |-> "starship theme not found"]
  ELSE Io(copy(f, theme_path, config_path))

copy_theme(f, config_path, theme_path) ==
  IF ~is_file(f, theme_path)
  THEN [ok |-> FALSE, fs |-> f, msg |-> "starship theme file not found"]
  ELSE Io(copy(f, theme_path, config_path))

apply_starship(f, c, theme_dir) ==
  LET m == c.starship_mode IN
  Bind(starship_ensure_omarchy_default_theme_link(f), LAMBDA e :
  IF ~e.ok THEN Io(e) ELSE
  Bind(create_dir_all(e.fs, Parent(StarshipConfig)), LAMBDA d1 :
  IF ~d1.ok THEN Io(d1) ELSE
  Bind(create_dir_all(d1.fs, StarshipThemesDir), LAMBDA d2 :
  IF ~d2.ok THEN Io(d2)
     ELSE CASE m.m = "None" -> Io(d2)
            [] m.m = "Preset" -> apply_preset(d2.fs, StarshipConfig, m.v, c.starship_cmd)
            [] m.m = "Named" -> apply_named(d2.fs, StarshipConfig, StarshipThemesDir, m.v)
            [] m.m = "Theme" ->
                 copy_theme(d2.fs, StarshipConfig, Append(theme_dir, "starship.toml")))))

(***************************************************************************)
(* theme_ops.rs                                                            *)
(***************************************************************************)
is_broken_symlink(f, p) == is_symlink(f, p) /\ ~exists(f, p)

(* list_theme_entries: Err (modelled as None) when the root is no directory. *)
list_theme_entries(f, theme_root) ==
  IF ~is_dir(f, theme_root) THEN None
  ELSE Some({Last(q) : q \in {q \in Children(f, RealPath(f, theme_root)) :
                                 is_dir(f, q) \/ f[q].k = "link"}})

sorted_theme_entries(f, theme_root) ==
  LET l == list_theme_entries(f, theme_root)
  IN IF l = None THEN None ELSE Some(SortNames(l[1]))

Position(entries, x) ==
  IF \E i \in 1..Len(entries) : entries[i] = x
  THEN CHOOSE i \in 1..Len(entries) :
         entries[i] = x /\ \A j \in 1..(i - 1) : entries[j] # x
  ELSE 0

next_theme_clamped(entries, current) ==
  IF current # None /\ Position(entries, current[1]) # 0
  THEN entries[IF Position(entries, current[1]) = Len(entries)
               THEN Len(entries) ELSE Position(entries, current[1]) + 1]
  ELSE entries[1]

(* Indexes are 1-based here: entry idx is followed by (idx mod len) + 1. *)
next_theme(entries, current) ==
  IF current # None /\ Position(entries, current[1]) # 0
  THEN entries[(Position(entries, current[1]) % Len(entries)) + 1]
  ELSE entries[1]

(***************************************************************************)
(* State.                                                                  *)
(*   fs      the file system                                               *)
(*   pc      the position of the running command ("idle": none running)    *)
(*   ctx     the CommandContext of the running (or last) command           *)
(*   result  the outcome of the last command that returned                 *)
(*   now     the clock, in seconds                                         *)
(*   ncmds   the number of commands started so far                         *)
(*   fs0     the live current-theme tree and theme.name as they were when  *)
(*           the running (or last) command started                         *)
(*   sel     the last resolution of the per-subsystem modes: its inputs    *)
(*           and its result                                                *)
(*   applied the last waybar bundle that prepare_waybar applied            *)
(***************************************************************************)
VARIABLES fs, pc, ctx, result, now, ncmds, fs0, sel, applied
vars == <<fs, pc, ctx, result, now, ncmds, fs0, sel, applied>>

NoStarship == [m |-> "None", v |-> ""]
(***************************************************************************)
(* omarchy.rs: the external commands of the reload phase.  An environment  *)
(* says of each command whether it is installed and how it exits.          *)
(***************************************************************************)
ReloadSignals ==
  <<"omarchy-restart-terminal", "omarchy-restart-waybar", "omarchy-restart-swayosd",
    "hyprctl", "makoctl", "pkill">>
ThemeSetters ==
  <<"omarchy-theme-set-gnome", "omarchy-theme-set-browser", "omarchy-theme-set-vscode",
    "omarchy-theme-set-cursor", "omarchy-theme-set-obsidian">>
CommandNames ==
  {"omarchy-theme-bg-next"} \cup {ReloadSignals[i] : i \in DOMAIN ReloadSignals}
    \cup {ThemeSetters[i] : i \in DOMAIN ThemeSetters}
AllOk == [c \in CommandNames |-> "ok"]

run_required(cmd) == [cmd |-> cmd, how |-> "required"]
run_optional(cmd) == [cmd |-> cmd, how |-> "optional"]
run_command(cmd) == [cmd |-> cmd, how |-> "command"]
RunIgnored(cmd) == [cmd |-> cmd, how |-> "ignored"]

(* A reload that runs the collected restart and the generic waybar restart. *)
reload_components_restarting_twice(waybar_restart) ==
  <<run_optional("omarchy-restart-terminal"),
    IF waybar_restart # None THEN run_command(waybar_restart[1])
    ELSE run_optional("omarchy-restart-waybar"),
    run_optional("omarchy-restart-waybar"),
    run_optional("omarchy-restart-swayosd"),
    run_optional("hyprctl"),
    run_optional("makoctl"),
    RunIgnored("pkill")>>

reload_components(waybar_restart) ==
  <<run_optional("omarchy-restart-terminal"),
    IF waybar_restart # None THEN run_command(waybar_restart[1])
    ELSE run_optional("omarchy-restart-waybar"),
    run_optional("omarchy-restart-swayosd"),
    run_optional("hyprctl"),
    run_optional("makoctl"),
    RunIgnored("pkill")>>
apply_theme_setters == [i \in DOMAIN ThemeSetters |-> run_optional(ThemeSetters[i])]

(* The calls in order, each followed by `?` unless its result is ignored:  *)
(* the first error ends the run.  ran lists the commands that were         *)
(* started.                                                                *)
RECURSIVE RunSteps(_, _, _)
RunSteps(steps, env, ran) ==
  IF steps = <<>> THEN [ok |-> TRUE, ran |-> ran, msg |-> ""]
  ELSE IF env[Head(steps).cmd] = "missing"
  THEN (IF Head(steps).how = "required"
        THEN [ok |-> FALSE, ran |-> ran, msg |-> Head(steps).cmd \o " not found in PATH"]
        ELSE IF Head(steps).how = "command"
        THEN [ok |-> FALSE, ran |-> ran, msg |-> Head(steps).cmd \o " not started"]
        ELSE RunSteps(Tail(steps), env, ran))
  ELSE IF env[Head(steps).cmd] = "fail" /\ Head(steps).how # "ignored"
  THEN [ok |-> FALSE, ran |-> Append(ran, Head(steps)),
        msg |-> Head(steps).cmd \o " exited"]
  ELSE RunSteps(Tail(steps), env, Append(ran, Head(steps)))

NoCtx ==
  [cmd |-> "none", theme_name |-> "empty", normalized |-> "empty", theme_source |-> NoPath,
   waybar_mode |-> "None", waybar_name |-> None, waybar_apply_mode |-> "symlink",
   walker_mode |-> "None", walker_name |-> None, walker_apply_mode |-> "symlink",
   hyprlock_mode |-> "None", hyprlock_name |-> None, hyprlock_apply_mode |-> "symlink",
   starship_mode |-> NoStarship, starship_cmd |-> "ok", skip_apps |-> FALSE,
   waybar_restart |-> None, waybar_restart_cmd |-> None, hook |-> "missing", ran |-> <<>>,
   env |-> AllOk, skip_hook |-> FALSE, hook_ran |-> <<>>]
NoResult == [cmd |-> "none", status |-> "none", msg |-> ""]
NoSel == [cmd |-> "none"]
NoApplied == [bundle |-> NoPath, apply_mode |-> "none", subdirs |-> {}, n |-> 0,
              before |-> "none"]

Ok(cmd) == [cmd |-> cmd, status |-> "ok", msg |-> ""]
Err(cmd, msg) == [cmd |-> cmd, status |-> "err", msg |-> msg]

(* What a command finds at the live path when it starts: the directory    *)
(* holding the link, theme.name, the staging directory (not its content)   *)
(* and the tree at the live path.                                          *)
LiveView(f) ==
  [q \in {q \in DOMAIN f : \/ q = Parent(CurrentThemeLink)
                            \/ q = ThemeNameFile
                            \/ q = StagingDir
                            \/ IsPrefix(CurrentThemeLink, q)} |-> f[q]]

(* The file name the template hook renders into the staged tree. *)
HookFile == "rendered.conf"

(* copy_theme_dir: the entries of the source still to be re-created in     *)
(* the staging directory, and the one WalkDir yields next (a directory     *)
(* before its content).                                                    *)
SourceRoot(f, c) == RealPath(f, c.theme_source)
SourceEntries(f, c) ==
  LET root == SourceRoot(f, c)
  IN IF root = NoPath \/ ~Has(f, root) THEN {} ELSE {Suffix(q, root) : q \in Under(f, root)} \ {<<>>}
Remaining(f, c) == {r \in SourceEntries(f, c) : StagingDir \o r \notin DOMAIN f}
NextEntry(f, c) ==
  CHOOSE r \in Remaining(f, c) : \A o \in Remaining(f, c) : Len(r) <= Len(o)

(* One iteration of the loop of copy_theme_dir: a directory is created, a  *)
(* link re-created with the target read_link returns, a file copied.       *)
CopiedNodeFollowed(f, src) ==
  IF f[src].k = "link" /\ is_file(f, src) THEN FileNode(read_to_string(f, src)) ELSE f[src]
CopiedNode(f, src) == f[src]
copy_theme_entry_in_place(f, c, rel) ==
  Put(f, CurrentThemeLink \o rel, CopiedNode(f, SourceRoot(f, c) \o rel))
copy_theme_entry(f, c, rel) ==
  Put(f, StagingDir \o rel, CopiedNode(f, SourceRoot(f, c) \o rel))

prepare_staging_dir_clearing(f, current_link) ==
  LET p == create_dir_all(f, Parent(current_link))
      staging_dir == Append(Parent(current_link), "next-theme")
      g == IF lexists(p.fs, staging_dir) THEN remove_path(p.fs, staging_dir) ELSE p.fs
      h == IF lexists(g, current_link) THEN remove_path(g, current_link) ELSE g
  IN IF ~p.ok THEN p ELSE create_dir_all(h, staging_dir)

(* prepare_staging_dir up to the call of copy_theme_dir. *)
prepare_staging_dir(f, current_link) ==
  LET p == create_dir_all(f, Parent(current_link))
      staging_dir == Append(Parent(current_link), "next-theme")
      g == IF lexists(p.fs, staging_dir) THEN remove_path(p.fs, staging_dir) ELSE p.fs
  IN IF ~p.ok THEN p ELSE create_dir_all(g, staging_dir)

(* replace_theme_dir, first half: whatever is at the live path is removed. *)
remove_current(f, current_dir) ==
  IF lexists(f, current_dir) THEN remove_path(f, current_dir) ELSE f

(* A write_theme_name that puts the sidecar inside the theme directory. *)
write_theme_name_inside(f, current_link, theme_name) ==
  LET d == create_dir_all(f, current_link)
  IN IF ~d.ok THEN d
     ELSE write(d.fs, Append(current_link, "theme.name"),
                IF NameChars[theme_name] = <<>> THEN <<>> ELSE <<theme_name>>)

write_theme_name(f, current_link, theme_name) ==
  LET d == create_dir_all(f, Parent(current_link))
  IN IF ~d.ok THEN d
     ELSE write(d.fs, Append(Parent(current_link), "theme.name"),
                IF NameChars[theme_name] = <<>> THEN <<>> ELSE <<theme_name>>)

(***************************************************************************)
(* cmd_set, step by step.  Begin is lines 80-100: validation of the name   *)
(* and resolution of the source.                                           *)
(***************************************************************************)
Begin(cmd, theme_name, c) ==
  LET normalized == normalize_theme_name(theme_name)
      theme_path == Join(ThemeRootDir, normalized)
      theme_source == resolve_link_target(fs, theme_path)
  IN /\ ncmds' = ncmds + 1
     /\ fs0' = LiveView(fs)
     /\ ctx' = [c EXCEPT !.cmd = cmd, !.theme_name = theme_name, !.normalized = normalized,
                         !.theme_source = theme_source, !.waybar_restart = None]
     /\ IF is_broken_symlink(fs, theme_path)
        THEN pc' = "idle" /\ result' = Err(cmd, "theme symlink is broken")
        ELSE IF ~is_dir(fs, theme_path) /\ ~is_symlink(fs, theme_path)
        THEN pc' = "idle" /\ result' = Err(cmd, "theme not found")
        ELSE IF theme_source = NoPath
        THEN pc' = "idle" /\ result' = Err(cmd, "resolve_link_target")
        ELSE pc' = "stage" /\ result' = NoResult
     /\ UNCHANGED <<fs, now, applied>>

CmdSet(themes, ctxs) ==
  /\ pc = "idle"
  /\ ncmds < MaxCmds
  /\ \E theme_name \in themes, c \in ctxs : Begin("set", theme_name, c)
  /\ UNCHANGED sel

(* cmd_set, with the state the command starts from, and the selection and  *)
(* result of the command before it, kept for comparison.                   *)
CmdSetAfter(themes, ctxs) ==
  /\ pc = "idle"
  /\ ncmds < MaxCmds
  /\ \E theme_name \in themes, c \in ctxs : Begin("set", theme_name, c)
  /\ sel' = [cmd |-> "set", fs |-> fs, ctx |-> ctx, result |-> result]

(* cmd_next: the entry after the current one, handed to cmd_set. *)
CmdNext(ctxs) ==
  /\ pc = "idle"
  /\ ncmds < MaxCmds
  /\ LET entries == sorted_theme_entries(fs, ThemeRootDir) IN
     IF entries = None \/ entries[1] = <<>>
     THEN /\ pc' = "idle"
          /\ result' = Err("next", IF entries = None THEN "themes directory not found"
                                    ELSE "no themes available")
          /\ ncmds' = ncmds + 1
          /\ fs0' = LiveView(fs)
          /\ \E c \in ctxs : ctx' = [c EXCEPT !.cmd = "next"]
          /\ UNCHANGED <<fs, now, sel, applied>>
     ELSE /\ \E c \in ctxs :
               Begin("next", next_theme(entries[1], current_theme_name(fs, CurrentThemeLink)), c)
          /\ UNCHANGED sel

Fail(msg) ==
  /\ pc' = "idle"
  /\ result' = Err(ctx.cmd, msg)

StagePrepare ==
  /\ pc = "stage"
  /\ LET r == prepare_staging_dir(fs, CurrentThemeLink) IN
     /\ fs' = r.fs
     /\ IF ~r.ok THEN Fail("prepare_staging_dir")
        ELSE /\ pc' = IF Remaining(r.fs, ctx) = {} THEN "hook" ELSE "copy"
             /\ UNCHANGED result
  /\ UNCHANGED <<ctx, now, ncmds, fs0, sel, applied>>

CopyEntry ==
  /\ pc = "copy"
  /\ LET g == copy_theme_entry(fs, ctx, NextEntry(fs, ctx)) IN
     /\ fs' = g
     /\ pc' = IF Remaining(g, ctx) = {} THEN "hook" ELSE "copy"
  /\ UNCHANGED <<ctx, result, now, ncmds, fs0, sel, applied>>

(* fs::copy or symlink fails (I/O error): copy_theme_dir returns Err and   *)
(* the staging directory stays as far as it got.                           *)
CopyFail ==
  /\ pc = "copy"
  /\ Fail("copy_theme_dir")
  /\ UNCHANGED <<fs, ctx, now, ncmds, fs0, sel, applied>>

(* run_optional("omarchy-theme-set-templates"): the command is missing     *)
(* (Ok), or runs and renders into the staging directory, and then exits    *)
(* with success or with failure.                                           *)
TemplateHook ==
  /\ pc = "hook"
  /\ \E outcome \in {"missing", "ok", "fail"} :
       /\ fs' = IF outcome = "missing" THEN fs
                ELSE Put(fs, Append(StagingDir, HookFile), FileNode(<<"rendered">>))
       /\ ctx' = [ctx EXCEPT !.hook = outcome]
       /\ IF outcome = "fail" THEN Fail("omarchy-theme-set-templates exited")
          ELSE pc' = "remove" /\ UNCHANGED result
  /\ UNCHANGED <<now, ncmds, fs0, sel, applied>>

RemoveCurrent ==
  /\ pc = "remove"
  /\ fs' = remove_current(fs, CurrentThemeLink)
  /\ pc' = "rename"
  /\ UNCHANGED <<ctx, result, now, ncmds, fs0, sel, applied>>

RenameStaging ==
  /\ pc = "rename"
  /\ LET r == rename(fs, StagingDir, CurrentThemeLink) IN
     /\ fs' = r.fs
     /\ IF r.ok THEN pc' = "name" /\ UNCHANGED result ELSE Fail("rename")
  /\ UNCHANGED <<ctx, now, ncmds, fs0, sel, applied>>

(* write_theme_name, then current_theme_dir (line 106). *)
WriteThemeName ==
  /\ pc = "name"
  /\ LET r == write_theme_name(fs, CurrentThemeLink, ctx.normalized) IN
     /\ fs' = r.fs
     /\ IF ~r.ok \/ current_theme_dir(r.fs, CurrentThemeLink) = NoPath
        THEN Fail("write_theme_name")
        ELSE /\ pc' = IF ctx.skip_apps THEN "hookscript" ELSE "waybar"
             /\ UNCHANGED result
  /\ UNCHANGED <<ctx, now, ncmds, fs0, sel, applied>>

(* What prepare_waybar applied, if it got as far as applying a bundle: the *)
(* bundle, the apply mode, the subdirectories the bundle had, the number   *)
(* of the command, and the mode of the apply before it.                    *)
Applied(f, c, theme_dir, r, n) ==
  IF ~r.ok THEN [NoApplied EXCEPT !.apply_mode = "failed", !.n = n,
                                  !.before = applied.apply_mode]
  ELSE IF r.restart = None THEN applied
  ELSE LET b == WaybarBundle(c, theme_dir)[1]
       IN [bundle |-> b, apply_mode |-> c.waybar_apply_mode,
           subdirs |-> BundleSubdirs(f, b), n |-> n, before |-> applied.apply_mode]

ApplyWaybar ==
  /\ pc = "waybar"
  /\ LET theme_dir == current_theme_dir(fs, CurrentThemeLink)
         r == prepare_waybar(fs, ctx, theme_dir, now)
     IN /\ fs' = r.fs
        /\ ctx' = [ctx EXCEPT !.waybar_restart = r.restart]
        /\ applied' = Applied(fs, ctx, theme_dir, r, ncmds)
        /\ IF r.ok THEN pc' = "starship" /\ UNCHANGED result ELSE Fail("waybar")
  /\ UNCHANGED <<now, ncmds, fs0, sel>>

ApplyStarship ==
  /\ pc = "starship"
  /\ LET r == apply_starship(fs, ctx, current_theme_dir(fs, CurrentThemeLink)) IN
     /\ fs' = r.fs
     /\ IF r.ok THEN pc' = "reload" /\ UNCHANGED result ELSE Fail(r.msg)
  /\ UNCHANGED <<ctx, now, ncmds, fs0, sel, applied>>

(* Lines 114-128: omarchy-theme-bg-next, reload_components and             *)
(* apply_theme_setters, in an environment env; the first error is          *)
(* cmd_set's result.                                                       *)
Reload(envs) ==
  /\ pc = "reload"
  /\ \E env \in envs :
       \E r \in {RunSteps(<<run_required("omarchy-theme-bg-next")>>
                           \o reload_components(ctx.waybar_restart)
                           \o apply_theme_setters, env, <<>>)} :
         /\ ctx' = [ctx EXCEPT !.ran = r.ran, !.env = env]
         /\ IF r.ok THEN pc' = "hookscript" /\ UNCHANGED result ELSE Fail(r.msg)
  /\ UNCHANGED <<fs, now, ncmds, fs0, sel, applied>>

(* Lines 130-138: the post-apply hook script, its result dropped. *)
(* The user's post-apply hook, ~/.config/omarchy/hooks/theme-set. *)
HookPath == <<"hooks", "theme-set">>
HookOutcomes == {"ok", "fail", "nostart"}

(* run_hook: nothing when the hook is not a file; else the command is      *)
(* started with the argument, and `let _ = command.status()` drops both a  *)
(* failure to start and the exit status.  The value is the log of starts.  *)
run_hook(f, hook_path, arg, outcome) ==
  IF ~is_file(f, hook_path) THEN <<>> ELSE <<[arg |-> arg, outcome |-> outcome]>>

(* A hook step that hands a hook's failure on to cmd_set's result. *)
HookScriptChecked(outcomes) ==
  /\ pc = "hookscript"
  /\ pc' = "idle"
  /\ \E o \in outcomes :
       \E h \in {IF ctx.skip_hook THEN <<>> ELSE run_hook(fs, HookPath, ctx.normalized, o)} :
         /\ ctx' = [ctx EXCEPT !.hook_ran = h]
         /\ result' = IF h # <<>> /\ o # "ok" THEN Err(ctx.cmd, "hook") ELSE Ok(ctx.cmd)
  /\ UNCHANGED <<fs, now, ncmds, fs0, sel, applied>>

(* cmd_set lines 130-138: unless skip_hook, run_hook with the normalized   *)
(* name, its result dropped; then Ok(()).                                  *)
HookScript(outcomes) ==
  /\ pc = "hookscript"
  /\ pc' = "idle"
  /\ result' = Ok(ctx.cmd)
  /\ \E o \in outcomes :
       ctx' = [ctx EXCEPT !.hook_ran = IF ctx.skip_hook THEN <<>>
                                       ELSE run_hook(fs, HookPath, ctx.normalized, o)]
  /\ UNCHANGED <<fs, now, ncmds, fs0, sel, applied>>

(* The process is killed between two file-system steps. *)
Crash ==
  /\ pc \notin {"idle"}
  /\ pc' = "idle"
  /\ result' = [cmd |-> ctx.cmd, status |-> "crashed", msg |-> pc]
  /\ UNCHANGED <<fs, ctx, now, ncmds, fs0, sel, applied>>

Tick ==
  /\ pc = "idle"
  /\ now < MaxClock
  /\ now' = now + 1
  /\ UNCHANGED <<fs, pc, ctx, result, ncmds, fs0, sel, applied>>

(***************************************************************************)
(* Initial file systems.  A tree is given as a set of <<relative path,     *)
(* node>> pairs placed below a root.                                       *)
(***************************************************************************)
Tree(root, ents) ==
  [q \in {root \o e[1] : e \in ents} |-> (CHOOSE e \in ents : root \o e[1] = q)[2]]

AlphaTree ==
  {<<<<>>, DirNode>>,
   <<<<"starship.toml">>, FileNode(<<"sa">>)>>,
   <<<<"ln">>, RelLinkNode(<<"starship.toml">>)>>,
   <<<<"waybar-theme">>, DirNode>>,
   <<<<"waybar-theme", "config.jsonc">>, FileNode(<<"ca">>)>>,
   <<<<"waybar-theme", "style.css">>, FileNode(<<"ya">>)>>,
   <<<<"waybar-theme", "assets">>, DirNode>>}
BravoTree ==
  {<<<<>>, DirNode>>,
   <<<<"waybar-theme">>, DirNode>>,
   <<<<"waybar-theme", "config.jsonc">>, FileNode(<<"cb">>)>>,
   <<<<"waybar-theme", "style.css">>, FileNode(<<"yb">>)>>,
   <<<<"waybar-theme", "scripts">>, DirNode>>}
OldTree == {<<<<>>, DirNode>>, <<<<"colors">>, FileNode(<<"old">>)>>}
SharedBundle ==
  {<<<<>>, DirNode>>,
   <<<<"config.jsonc">>, FileNode(<<"cs">>)>>,
   <<<<"style.css">>, FileNode(<<"ys">>)>>,
   <<<<"assets">>, DirNode>>,
   <<<<"assets", "a.png">>, FileNode(<<"png">>)>>,
   <<<<"scripts">>, DirNode>>}
AltBundle ==
  {<<<<>>, DirNode>>,
   <<<<"config.jsonc">>, FileNode(<<"ct">>)>>,
   <<<<"style.css">>, FileNode(<<"yt">>)>>,
   <<<<"scripts">>, DirNode>>,
   <<<<"fonts">>, DirNode>>}

(* The theme root: alpha is a directory, bravo a link to an installed      *)
(* theme, charlie a link whose target is gone.                             *)
ThemesFs ==
  Tree(<<"themes">>, {<<<<>>, DirNode>>,
                      <<<<"bravo">>, LinkNode(<<"store", "bravo">>)>>,
                      <<<<"charlie">>, LinkNode(<<"store", "missing">>)>>})
  @@ Tree(<<"themes", "alpha">>, AlphaTree)
  @@ Tree(<<"store">>, {<<<<>>, DirNode>>})
  @@ Tree(<<"store", "bravo">>, BravoTree)

BundlesFs ==
  Tree(WaybarDir, {<<<<>>, DirNode>>}) @@ Tree(WaybarThemesDir, {<<<<>>, DirNode>>})
  @@ Tree(<<"waybar", "themes", "shared">>, SharedBundle)
  @@ Tree(<<"waybar", "themes", "alt">>, AltBundle)
  @@ Tree(StarshipThemesDir, {<<<<>>, DirNode>>,
                              <<<<"night.toml">>, FileNode(<<"sn">>)>>})

(* What the user may have in place before the engine runs. *)
UserStarship == Tree(StarshipConfig, {<<<<>>, FileNode(<<"mine">>)>>})
UserWaybar ==
  Tree(WaybarDir, {<<<<"config.jsonc">>, FileNode(<<"old">>)>>,
                   <<<<"style.css">>, FileNode(<<"old-style">>)>>,
                   <<<<"assets">>, DirNode>>,
                   <<<<"assets", "mine.png">>, FileNode(<<"m">>)>>})
OccupiedBackup ==
  Tree(<<"waybar", "themes", "existing">>,
       {<<<<>>, DirNode>>, <<<<"config.jsonc">>, FileNode(<<"older">>)>>})
StaleStaging ==
  Tree(StagingDir, {<<<<>>, DirNode>>, <<<<"junk">>, FileNode(<<"stale">>)>>})
Sidecar(name) == Tree(ThemeNameFile, {<<<<>>, FileNode(<<name>>)>>})
CurrentDir == Tree(Parent(CurrentThemeLink), {<<<<>>, DirNode>>})

(* The states of the live current-theme path the swap starts from. *)
LiveStates ==
  { EmptyFs,
    CurrentDir @@ Tree(CurrentThemeLink, AlphaTree) @@ Sidecar("alpha") @@ StaleStaging,
    CurrentDir @@ Tree(CurrentThemeLink, {<<<<>>, LinkNode(<<"themes", "bravo">>)>>}),
    CurrentDir @@ Tree(CurrentThemeLink, OldTree) @@ Sidecar("charlie"),
    CurrentDir @@ Tree(CurrentThemeLink, OldTree) @@ Sidecar("ghost") }

InitCommon ==
  /\ pc = "idle"
  /\ ctx = NoCtx
  /\ result = NoResult
  /\ now = 0
  /\ ncmds = 0
  /\ fs0 = LiveView(fs)
  /\ sel = NoSel
  /\ applied = NoApplied

(***************************************************************************)
(* Spec: one cmd_set or cmd_next, step by step, from each live state.      *)
(***************************************************************************)
SetThemes == {"alpha", "Bravo", "charlie", "ghost", "tag"}
SetContexts ==
  { [NoCtx EXCEPT !.skip_apps = TRUE],
    [NoCtx EXCEPT !.waybar_mode = "Auto",
                  !.starship_mode = [m |-> "Theme", v |-> ""]],
    [NoCtx EXCEPT !.waybar_mode = "Named", !.waybar_name = Some("shared"),
                  !.waybar_apply_mode = "copy",
                  !.starship_mode = [m |-> "Named", v |-> "night"]] }

(* Everything installed and well; the wallpaper command, a reload signal   *)
(* or a setter exits non-zero.                                             *)
SetEnvs ==
  {AllOk} \cup {[AllOk EXCEPT ![c] = "fail"] :
                  c \in {"omarchy-theme-bg-next", "hyprctl", "omarchy-theme-set-gnome"}}

Init ==
  /\ fs \in {ThemesFs @@ BundlesFs @@ UserStarship @@ UserWaybar @@ l : l \in LiveStates}
  /\ InitCommon

Next ==
  \/ CmdSet(SetThemes, SetContexts)
  \/ CmdNext(SetContexts)
  \/ StagePrepare
  \/ CopyEntry
  \/ CopyFail
  \/ TemplateHook
  \/ RemoveCurrent
  \/ RenameStaging
  \/ WriteThemeName
  \/ ApplyWaybar
  \/ ApplyStarship
  \/ Reload(SetEnvs)
  \/ HookScript({"ok"})
  \/ Crash

Spec == Init /\ [][Next]_vars

TypeOK ==
  /\ pc \in {"idle", "stage", "copy", "hook", "remove", "rename", "name", "waybar",
             "starship", "reload", "hookscript"}
  /\ \A p \in DOMAIN fs : Len(p) > 0 /\ Has(fs, Parent(p)) /\ At(fs, Parent(p)).k = "dir"

(***************************************************************************)
(* SpecWaybar: the standalone `waybar` command (apply_waybar_only), run    *)
(* repeatedly over a waybar directory that holds the user's own files.     *)
(***************************************************************************)
apply_waybar_only(c, restart_ok) ==
  LET theme_dir == current_theme_dir(fs, CurrentThemeLink)
      r == prepare_waybar(fs, c, theme_dir, now)
  IN /\ ncmds' = ncmds + 1
     /\ fs0' = LiveView(fs)
     /\ pc' = "idle"
     /\ IF c.skip_apps
        THEN /\ result' = Ok("waybar")
             /\ ctx' = [c EXCEPT !.cmd = "waybar"]
             /\ UNCHANGED <<fs, applied>>
        ELSE IF theme_dir = NoPath
        THEN /\ result' = Err("waybar", "io")
             /\ ctx' = [c EXCEPT !.cmd = "waybar"]
             /\ UNCHANGED <<fs, applied>>
        ELSE /\ fs' = r.fs
             /\ ctx' = [c EXCEPT !.cmd = "waybar", !.waybar_restart = r.restart]
             /\ applied' = Applied(fs, c, theme_dir, r, ncmds + 1)
             /\ result' = IF ~r.ok THEN Err("waybar", "waybar")
                          ELSE IF ~restart_ok THEN Err("waybar", "omarchy-restart-waybar")
                          ELSE Ok("waybar")
     /\ UNCHANGED <<now, sel>>

CmdWaybar(ctxs) ==
  /\ pc = "idle"
  /\ ncmds < MaxCmds
  /\ \E c \in ctxs, restart_ok \in BOOLEAN : apply_waybar_only(c, restart_ok)

WaybarContexts ==
  { [NoCtx EXCEPT !.waybar_mode = m[1], !.waybar_name = m[2], !.waybar_apply_mode = a] :
      m \in {<<"Auto", None>>, <<"Named", Some("shared")>>, <<"Named", Some("alt")>>,
             <<"Named", Some("nowhere")>>},
      a \in {"symlink", "copy"} }

WaybarStates == {EmptyFs, UserWaybar, UserWaybar @@ OccupiedBackup}

InitWaybar ==
  /\ fs \in {ThemesFs @@ w @@ BundlesFs @@ CurrentDir @@ Tree(CurrentThemeLink, AlphaTree)
               @@ Sidecar("alpha") : w \in WaybarStates}
  /\ InitCommon

NextWaybar ==
  \/ CmdWaybar(WaybarContexts)
  \/ Tick

SpecWaybar == InitWaybar /\ [][NextWaybar]_vars

(***************************************************************************)
(* Properties of the theme swap.                                           *)
(***************************************************************************)
LiveTree(f) == RelTree(f, CurrentThemeLink)
SelectedTree(f, c) == RelTree(f, RealPath(f, Join(ThemeRootDir, c.normalized)))
HookFree(t) == [r \in DOMAIN t \ {<<HookFile>>} |-> t[r]]
SwapCmds == {"set", "next"}
BeforeRename ==
  {"theme symlink is broken", "theme not found", "resolve_link_target",
   "prepare_staging_dir", "copy_theme_dir", "omarchy-theme-set-templates exited"}

(* C1: when the template hook fails, or a step before the replacement of   *)
(* the live directory fails, cmd_set returns an error and the tree at the  *)
(* live path is the one the command found when it started.                 *)
C1_FailureKeepsLive ==
  /\ (ctx.hook = "fail" => pc = "idle" /\ result.status = "err")
  /\ (result.status = "err" /\ result.cmd \in SwapCmds /\ result.msg \in BeforeRename
        => LiveTree(fs) = LiveTree(fs0))

C1_Witness ==
  /\ result.status = "err"
  /\ result.msg = "omarchy-theme-set-templates exited"
  /\ DOMAIN LiveTree(fs0) # {}
  /\ Append(StagingDir, HookFile) \in DOMAIN fs
  /\ LiveTree(fs) = LiveTree(fs0)

C3_CrashLeavesOldOrNew ==
  result.status = "crashed" /\ result.cmd \in SwapCmds
    => \/ LiveTree(fs) = LiveTree(fs0)
       \/ HookFree(LiveTree(fs)) = SelectedTree(fs, ctx)

(* C4: the tree at the live path changes only by being removed or by       *)
(* receiving, in one rename, the whole staged tree, which then holds the   *)
(* complete copy of the selected theme.                                    *)
C4_LiveChangesByRenameOnly ==
  [][LiveTree(fs') # LiveTree(fs)
       => \/ DOMAIN LiveTree(fs') = {}
          \/ /\ LiveTree(fs') = RelTree(fs, StagingDir)
             /\ StagingDir \notin DOMAIN fs'
             /\ HookFree(LiveTree(fs')) = SelectedTree(fs, ctx)]_vars

C4_Witness ==
  /\ pc = "name"
  /\ DOMAIN LiveTree(fs0) # {}
  /\ DOMAIN LiveTree(fs) # {}
  /\ LiveTree(fs) # LiveTree(fs0)
  /\ StagingDir \notin DOMAIN fs

(***************************************************************************)
(* Properties of the appliers.                                             *)
(***************************************************************************)
(* The entries of the live waybar directory an apply may replace: all but  *)
(* the bundle store and the engine's own manifest.                         *)
WaybarEntries(f) ==
  {Last(q) : q \in Children(f, WaybarDir)} \ {Last(WaybarThemesDir), WAYBAR_LINKS_FILE}
BackupRoots(clock) ==
  {Append(WaybarThemesDir, "existing"),
   Append(WaybarThemesDir, "existing-" \o ToString(clock))}
BackupNames(n, clock) == {n, n \o "-" \o ToString(clock)}
Replaced(f, g, p) == RelTree(g, p) # RelTree(f, p)

(* C5: when a waybar apply replaces an entry of the live waybar directory  *)
(* that is not a symlink, the entry as it was is afterwards found in the   *)
(* backup directory (existing, or existing-<timestamp>), under its name or *)
(* its name with the timestamp, with the same content.                     *)
C5_ReplacedEntryBackedUp ==
  [][\A n \in WaybarEntries(fs) :
       fs[Append(WaybarDir, n)].k # "link" /\ Replaced(fs, fs', Append(WaybarDir, n))
         => \E b \in BackupRoots(now), t \in BackupNames(n, now) :
              /\ Append(b, t) \in DOMAIN fs'
              /\ RelTree(fs', Append(b, t)) = RelTree(fs, Append(WaybarDir, n))]_vars

C5_Witness ==
  /\ result.cmd = "waybar"
  /\ result.status = "ok"
  /\ <<"waybar", "themes", "existing-0", "config.jsonc">> \in DOMAIN fs
  /\ fs[<<"waybar", "themes", "existing-0", "config.jsonc">>] = FileNode(<<"old">>)
  /\ fs[<<"waybar", "themes", "existing", "config.jsonc">>] = FileNode(<<"older">>)
  /\ RelTree(fs, <<"waybar", "themes", "existing-0", "assets">>)
       = Tree(<<>>, {<<<<>>, DirNode>>, <<<<"mine.png">>, FileNode(<<"m">>)>>})
  /\ fs[<<"waybar", "config.jsonc">>].k = "link"

(* C6: no step of an applier removes or overwrites an entry that is not a  *)
(* symlink (in the live waybar directory, or the starship configuration)   *)
(* unless the entry as it was is afterwards found in the backup area.      *)
ApplyDestinations(f) ==
  ({Append(WaybarDir, n) : n \in WaybarEntries(f)} \cup {StarshipConfig}) \cap DOMAIN f
C6_NeverOverwritesUnbacked ==
  [][\A p \in ApplyDestinations(fs) :
       fs[p].k # "link" /\ Replaced(fs, fs', p)
         => \E q \in Under(fs', WaybarThemesDir) : RelTree(fs', q) = RelTree(fs, p)]_vars

(* C7: when a bundle is applied in symlink mode right after another bundle *)
(* was applied in symlink mode, the symlinks among the entries of the live *)
(* waybar directory (config.jsonc and style.css aside) are exactly the     *)
(* subdirectories of the second bundle, each pointing into that bundle,    *)
(* and no subdirectory only the first bundle had is left as a symlink.     *)
SubdirsOf(f, bundle) ==
  {Last(q) : q \in {q \in Children(f, RealPath(f, bundle)) : is_dir(f, q)}}
LinkedEntries(f) ==
  {n \in WaybarEntries(f) : f[Append(WaybarDir, n)].k = "link"} \ {"config.jsonc", "style.css"}
C7_SecondBundleLinksOnly ==
  [][applied'.n # applied.n /\ applied.apply_mode = "symlink" /\ applied'.apply_mode = "symlink"
       => /\ LinkedEntries(fs') = SubdirsOf(fs', applied'.bundle)
          /\ \A n \in SubdirsOf(fs', applied'.bundle) :
               fs'[Append(WaybarDir, n)] = LinkNode(Append(applied'.bundle, n))
          /\ \A n \in applied.subdirs \ SubdirsOf(fs', applied'.bundle) :
               ~is_symlink(fs', Append(WaybarDir, n))]_vars

C7_Witness ==
  /\ applied.n = 2
  /\ applied.apply_mode = "symlink"
  /\ applied.before = "symlink"
  /\ applied.bundle = <<"waybar", "themes", "alt">>
  /\ LinkedEntries(fs) = {"scripts", "fonts"}
  /\ ~lexists(fs, <<"waybar", "assets">>)
  /\ <<"waybar", "themes", "existing", "assets", "mine.png">> \in DOMAIN fs

(***************************************************************************)
(* Properties of cmd_next and of the validation of cmd_set.                *)
(***************************************************************************)
ThemeEntries(f) ==
  {Last(q) : q \in {q \in Children(f, ThemeRootDir) : f[q].k \in {"dir", "link"}}}
Rank(S, x) == 1 + Cardinality({y \in S : NameLess(y, x)})
Ranked(S, i) == CHOOSE x \in S : Rank(S, x) = i

(* C8: cmd_next hands to cmd_set the entry that follows the current theme  *)
(* in byte order of the names, the first entry after the last one, and the *)
(* first entry when the current theme is unset or is no entry.             *)
C8_NextFollowsCurrent ==
  ctx.cmd = "next" /\ ThemeEntries(fs) # {}
    => LET S == ThemeEntries(fs)
           cur == current_theme_name(fs0, CurrentThemeLink)
       IN ctx.theme_name = IF cur # None /\ cur[1] \in S
                           THEN Ranked(S, (Rank(S, cur[1]) % Cardinality(S)) + 1)
                           ELSE Ranked(S, 1)

C8_Witness ==
  /\ ctx.cmd = "next"
  /\ ThemeEntries(fs) = {"alpha", "bravo", "charlie"}
  /\ current_theme_name(fs0, CurrentThemeLink) = Some("charlie")
  /\ ctx.theme_name = "alpha"
  /\ pc = "hook"

(* C9: cmd_set on an entry that is a dangling symlink fails with "theme    *)
(* symlink is broken", and cmd_set on a name that is no entry of the theme *)
(* root fails with "theme not found".                                      *)
C9_BrokenAndNotFound ==
  ctx.cmd = "set"
    => LET entry == Append(ThemeRootDir, ctx.normalized) IN
       /\ (entry \in DOMAIN fs /\ fs[entry].k = "link" /\ ~exists(fs, entry)
             => pc = "idle" /\ result = Err("set", "theme symlink is broken"))
       /\ (ctx.normalized \notin {Last(q) : q \in Children(fs, ThemeRootDir)}
             => pc = "idle" /\ result = Err("set", "theme not found"))

(***************************************************************************)
(* lib.rs, presets.rs: the resolution of the per-subsystem modes.  A CLI   *)
(* flag is None (not given), Some(None) (given bare) or Some(Some(name)).  *)
(***************************************************************************)
(* str::trim on the strings of this model. *)
trim(str) == CASE str = " " -> "" [] str = " auto " -> "auto" [] OTHER -> str

NamedNone == [m |-> "None", v |-> ""]
NamedAuto == [m |-> "Auto", v |-> ""]
Named(name) == [m |-> "Named", v |-> name]

flag_to_named_mode(flag) ==
  IF flag = None THEN [ok |-> TRUE, mode |-> NamedAuto]
  ELSE IF trim(flag[1]) = "" THEN [ok |-> FALSE, mode |-> NamedNone]
  ELSE [ok |-> TRUE, mode |-> Named(flag[1])]

named_mode_to_waybar(mode) ==
  CASE mode.m = "None" -> <<"None", None>>
    [] mode.m = "Auto" -> <<"Auto", None>>
    [] mode.m = "Named" -> <<"Named", Some(mode.v)>>

waybar_from_defaults(config) ==
  CASE config.default_waybar_mode = Some("auto") -> <<"Auto", None>>
    [] config.default_waybar_mode = Some("named") -> <<"Named", config.default_waybar_name>>
    [] OTHER -> <<"None", None>>

starship_from_defaults(config) ==
  CASE config.default_starship_mode = Some("preset") ->
         IF config.default_starship_preset # None
         THEN [m |-> "Preset", v |-> config.default_starship_preset[1]] ELSE NoStarship
    [] config.default_starship_mode = Some("named") ->
         IF config.default_starship_name # None
         THEN [m |-> "Named", v |-> config.default_starship_name[1]] ELSE NoStarship
    [] OTHER -> NoStarship

parse_waybar_flag_defaults_only(config, flag) ==
  [ok |-> TRUE, value |-> waybar_from_defaults(config)]

parse_waybar_flag(config, flag) ==
  IF flag # None
  THEN LET r == flag_to_named_mode(flag[1])
       IN [ok |-> r.ok, value |-> named_mode_to_waybar(r.mode)]
  ELSE [ok |-> TRUE, value |-> waybar_from_defaults(config)]

(* parse_waybar / parse_starship: the value, and whether an error was pushed. *)
EntryMode(entry) ==
  trim(IF entry # None /\ entry[1].mode # None THEN entry[1].mode[1] ELSE "none")
EntryField(entry, field) ==
  IF entry # None /\ entry[1][field] # None /\ trim(entry[1][field][1]) # ""
  THEN entry[1][field] ELSE None

parse_waybar(entry) ==
  LET mode == EntryMode(entry) IN
  CASE mode \in {"", "none"} -> [value |-> NamedNone, error |-> FALSE]
    [] mode = "auto" -> [value |-> NamedAuto, error |-> FALSE]
    [] mode = "named" ->
         IF EntryField(entry, "name") # None
         THEN [value |-> Named(EntryField(entry, "name")[1]), error |-> FALSE]
         ELSE [value |-> NamedNone, error |-> TRUE]
    [] OTHER -> [value |-> NamedNone, error |-> TRUE]

parse_starship(entry) ==
  LET mode == EntryMode(entry) IN
  CASE mode \in {"", "none"} -> [value |-> NoStarship, error |-> FALSE]
    [] mode = "preset" ->
         IF EntryField(entry, "preset") # None
         THEN [value |-> [m |-> "Preset", v |-> EntryField(entry, "preset")[1]], error |-> FALSE]
         ELSE [value |-> NoStarship, error |-> TRUE]
    [] mode = "named" ->
         IF EntryField(entry, "name") # None
         THEN [value |-> [m |-> "Named", v |-> EntryField(entry, "name")[1]], error |-> FALSE]
         ELSE [value |-> NoStarship, error |-> TRUE]
    [] mode = "theme" -> [value |-> [m |-> "Theme", v |-> ""], error |-> FALSE]
    [] OTHER -> [value |-> NoStarship, error |-> TRUE]

(* load_preset_definition: Err when summarize_preset collected an error. *)
load_preset_definition(entry) ==
  [ok |-> ~parse_waybar(entry.waybar).error /\ ~parse_starship(entry.starship).error,
   theme |-> entry.theme,
   waybar |-> parse_waybar(entry.waybar).value,
   starship |-> parse_starship(entry.starship).value]

preset_waybar(preset) ==
  CASE preset.waybar.m = "None" -> <<"None", None>>
    [] preset.waybar.m = "Auto" -> <<"Auto", None>>
    [] preset.waybar.m = "Named" -> <<"Named", Some(preset.waybar.v)>>

preset_starship(preset) == preset.starship

build_context(waybar, starship_mode) ==
  [NoCtx EXCEPT !.waybar_mode = waybar[1], !.waybar_name = waybar[2],
                !.starship_mode = starship_mode]

(* run(), Command::Set / Command::Next: the modes of the context handed to *)
(* cmd_set / cmd_next.  A flag that does not parse ends the command.  The  *)
(* process is one-shot: run() resolves the modes once.                     *)
RunSetOrNext(cmd, config, flag) ==
  LET w == parse_waybar_flag(config, flag)
      starship_mode == starship_from_defaults(config)
  IN /\ sel' = [cmd |-> cmd, config |-> config, flag |-> flag, entry |-> None, ok |-> w.ok]
     /\ ctx' = IF w.ok THEN [build_context(w.value, starship_mode) EXCEPT !.cmd = cmd]
               ELSE NoCtx
     /\ result' = IF w.ok THEN NoResult ELSE Err(cmd, "--waybar requires a name when used with =")
     /\ UNCHANGED <<fs, pc, now, ncmds, fs0, applied>>

RunSet(configs, flags) ==
  /\ pc = "idle"
  /\ sel = NoSel
  /\ \E config \in configs, flag \in flags : RunSetOrNext("set", config, flag)

RunNext(configs, flags) ==
  /\ pc = "idle"
  /\ sel = NoSel
  /\ \E config \in configs, flag \in flags : RunSetOrNext("next", config, flag)

(* run(), PresetCommand::Load. *)
RunPresetLoad(configs, flags, entries) ==
  /\ pc = "idle"
  /\ sel = NoSel
  /\ \E config \in configs, flag \in flags, entry \in entries :
       LET preset == load_preset_definition(entry)
           w == IF flag # None THEN parse_waybar_flag(config, flag)
                ELSE [ok |-> TRUE, value |-> preset_waybar(preset)]
           starship_mode == preset_starship(preset)
       IN /\ sel' = [cmd |-> "load", config |-> config, flag |-> flag,
                     entry |-> Some(entry), ok |-> preset.ok /\ w.ok]
          /\ ctx' = IF preset.ok /\ w.ok
                    THEN [build_context(w.value, starship_mode) EXCEPT !.cmd = "load"]
                    ELSE NoCtx
          /\ result' = IF ~preset.ok THEN Err("load", "preset")
                       ELSE IF ~w.ok THEN Err("load", "--waybar requires a name when used with =")
                       ELSE NoResult
          /\ UNCHANGED <<fs, pc, now, ncmds, fs0, applied>>

Configs ==
  [default_waybar_mode : {None, Some("auto"), Some("named"), Some("none")},
   default_waybar_name : {None, Some("shared")},
   default_starship_mode : {None, Some("preset"), Some("named")},
   default_starship_preset : {Some("pure")},
   default_starship_name : {None, Some("night")}]
Flags == {None, Some(None), Some(Some("alt")), Some(Some(" "))}
WaybarEntryValues ==
  {None, Some([mode |-> None, name |-> None]), Some([mode |-> Some(" auto "), name |-> None]),
   Some([mode |-> Some("named"), name |-> Some("shared")]),
   Some([mode |-> Some("named"), name |-> None]),
   Some([mode |-> Some("bogus"), name |-> None])}
StarshipEntryValues ==
  {None, Some([mode |-> Some("theme"), preset |-> None, name |-> None]),
   Some([mode |-> Some("preset"), preset |-> Some("pure"), name |-> None]),
   Some([mode |-> Some("named"), preset |-> None, name |-> Some("night")]),
   Some([mode |-> Some("named"), preset |-> None, name |-> Some(" ")])}
PresetEntries == [theme : {"alpha"}, waybar : WaybarEntryValues, starship : StarshipEntryValues]

InitMode ==
  /\ fs = ThemesFs @@ BundlesFs
  /\ InitCommon

NextMode ==
  \/ RunSet(Configs, Flags)
  \/ RunNext(Configs, Flags)
  \/ RunPresetLoad(Configs, Flags, PresetEntries)

SpecMode == InitMode /\ [][NextMode]_vars

(***************************************************************************)
(* Property of the mode resolution.                                        *)
(***************************************************************************)
(* What each source of a mode says, as <<mode, name>>. *)
FlagSays(flag) == IF flag[1] = None THEN <<"Auto", None>> ELSE <<"Named", flag[1]>>
PresetSays(w) ==
  IF w = None \/ w[1].mode = None \/ w[1].mode[1] = "none" THEN <<"None", None>>
  ELSE IF w[1].mode[1] \in {"auto", " auto "} THEN <<"Auto", None>>
  ELSE <<"Named", w[1].name>>
DefaultSays(config) ==
  IF config.default_waybar_mode = Some("auto") THEN <<"Auto", None>>
  ELSE IF config.default_waybar_mode = Some("named") THEN <<"Named", config.default_waybar_name>>
  ELSE <<"None", None>>
StarshipPresetSays(e) ==
  IF e = None THEN NoStarship
  ELSE IF e[1].mode = Some("theme") THEN [m |-> "Theme", v |-> ""]
  ELSE IF e[1].mode = Some("preset") THEN [m |-> "Preset", v |-> e[1].preset[1]]
  ELSE [m |-> "Named", v |-> e[1].name[1]]
StarshipDefaultSays(config) ==
  IF config.default_starship_mode = Some("preset")
  THEN [m |-> "Preset", v |-> config.default_starship_preset[1]]
  ELSE IF config.default_starship_mode = Some("named") /\ config.default_starship_name # None
  THEN [m |-> "Named", v |-> config.default_starship_name[1]]
  ELSE NoStarship

WalkerDir == <<"walker">>
WalkerThemesDir == <<"walker", "themes">>
HyprlockDir == <<"hypr">>
HyprlockThemesDir == <<"hypr", "themes", "hyprlock">>
OmarchyConfigDir == <<>>

(* The Omarchy installation, when there is one. *)
detect_omarchy_root(f) == IF is_dir(f, OmarchyRoot) THEN Some(OmarchyRoot) ELSE None

is_waybar_theme_dir(f, path) ==
  is_file(f, Append(path, "config.jsonc")) /\ is_file(f, Append(path, "style.css"))
is_walker_theme_dir(f, path) == is_file(f, Append(path, "style.css"))
is_hyprlock_theme_dir(f, path) == is_file(f, Append(path, "hyprlock.conf"))

(* The first candidate of a list, in order, whose marker test passed:      *)
(* [path, kind], or None.  passes[i] is the test's result for candidate i. *)
RECURSIVE FirstCandidate(_, _)
FirstCandidate(candidates, passes) ==
  IF candidates = <<>> THEN None
  ELSE IF Head(passes)
    THEN Some([path |-> Head(candidates)[1], kind |-> Head(candidates)[2]])
  ELSE FirstCandidate(Tail(candidates), Tail(passes))

WaybarCandidates(root) ==
  << <<root \o <<"default", "waybar", "themes", "omarchy-default">>, "OmarchyDefaultNamed">>,
     <<root \o <<"default", "waybar">>, "OmarchyDefaultBase">>,
     <<root \o <<"config", "waybar">>, "OmarchyConfigFallback">> >>
WalkerCandidates(root) ==
  << <<root \o <<"default", "walker", "themes", "omarchy-default">>, "OmarchyDefaultNamed">>,
     <<root \o <<"default", "walker">>, "OmarchyDefaultBase">> >>
HyprlockRootCandidates(root) ==
  << <<root \o <<"default", "hyprlock", "themes", "omarchy-default">>, "OmarchyDefaultNamed">>,
     <<root \o <<"default", "hyprlock">>, "OmarchyDefaultBase">>,
     <<root \o <<"themes", "omarchy-default">>, "OmarchyThemeStoreDefault">>,
     <<root \o <<"config", "hypr">>, "OmarchyConfigFallback">> >>
HyprlockHomeCandidates ==
  << <<OmarchyConfigDir \o <<"default", "hyprlock", "themes", "omarchy-default">>,
       "OmarchyUserConfigFallback">>,
     <<OmarchyConfigDir \o <<"default", "hyprlock">>, "OmarchyUserConfigFallback">>,
     <<OmarchyConfigDir \o <<"themes", "omarchy-default">>, "OmarchyUserConfigFallback">>,
     <<OmarchyConfigDir \o <<"config", "hypr">>, "OmarchyUserConfigFallback">> >>
StarshipCandidates(root) ==
  << <<root \o <<"default", "starship", "themes", "omarchy-default.toml">>,
       "OmarchyDefaultNamed">>,
     <<root \o <<"default", "starship.toml">>, "OmarchyDefaultBase">>,
     <<root \o <<"default", "starship", "starship.toml">>, "OmarchyConfigFallback">>,
     <<root \o <<"config", "starship.toml">>, "OmarchyConfigFallback">> >>

WaybarMarkers(f, cs) == [i \in DOMAIN cs |-> is_waybar_theme_dir(f, cs[i][1])]
WalkerMarkers(f, cs) == [i \in DOMAIN cs |-> is_walker_theme_dir(f, cs[i][1])]
HyprlockMarkers(f, cs) == [i \in DOMAIN cs |-> is_hyprlock_theme_dir(f, cs[i][1])]
StarshipMarkers(f, cs) == [i \in DOMAIN cs |-> is_file(f, cs[i][1])]

resolve_waybar_default(f) ==
  IF detect_omarchy_root(f) = None THEN None
  ELSE Bind(WaybarCandidates(detect_omarchy_root(f)[1]),
            LAMBDA cs : FirstCandidate(cs, WaybarMarkers(f, cs)))

resolve_walker_default_base_first(f) ==
  IF detect_omarchy_root(f) = None THEN None
  ELSE Bind(<<WalkerCandidates(detect_omarchy_root(f)[1])[2],
              WalkerCandidates(detect_omarchy_root(f)[1])[1]>>,
            LAMBDA cs : FirstCandidate(cs, WalkerMarkers(f, cs)))
resolve_walker_default(f) ==
  IF detect_omarchy_root(f) = None THEN None
  ELSE Bind(WalkerCandidates(detect_omarchy_root(f)[1]),
            LAMBDA cs : FirstCandidate(cs, WalkerMarkers(f, cs)))

resolve_hyprlock_default(f) ==
  Bind((IF detect_omarchy_root(f) = None THEN <<>>
        ELSE HyprlockRootCandidates(detect_omarchy_root(f)[1])) \o HyprlockHomeCandidates,
       LAMBDA cs : FirstCandidate(cs, HyprlockMarkers(f, cs)))

resolve_starship_default(f) ==
  IF detect_omarchy_root(f) = None THEN None
  ELSE Bind(StarshipCandidates(detect_omarchy_root(f)[1]),
            LAMBDA cs : FirstCandidate(cs, StarshipMarkers(f, cs)))

(* A metadata lookup that follows links and so reports a dangling link as  *)
(* not found.                                                              *)
symlink_metadata_following(f, p) ==
  IF exists(f, p) THEN "ok" ELSE "NotFound"

(* fs::symlink_metadata(p): "ok", "NotFound" (a component is missing) or   *)
(* "NotADirectory" (a component before the last is a file).                *)
symlink_metadata(f, p) ==
  LET bad == {i \in 1..(Len(p) - 1) : KindAt(f, RealPath(f, SubSeq(p, 1, i))) # "dir"}
  IN IF bad = {} THEN (IF lexists(f, p) THEN "ok" ELSE "NotFound")
     ELSE IF KindAt(f, RealPath(f, SubSeq(p, 1, CHOOSE i \in bad : \A j \in bad : i <= j)))
             = "file"
       THEN "NotADirectory"
     ELSE "NotFound"

(* read_link(link_path) == target compares paths component by component;  *)
(* the targets of this model are absolute.                                 *)
PointsTo(f, l, target) == f[l].t = target /\ ~f[l].rel

Ensured(r, how) == [ok |-> r.ok, fs |-> r.fs, result |-> IF r.ok THEN how ELSE "Err"]

ensure_symlink_replacing(f, link_path, target) ==
  IF symlink_metadata(f, link_path) = "ok"
  THEN (IF LKind(f, link_path) = "link" /\ PointsTo(f, LRealPath(f, link_path), target)
        THEN [ok |-> TRUE, fs |-> f, result |-> "Unchanged"]
        ELSE Ensured(symlink(remove_path(f, link_path), target, link_path), "Updated"))
  ELSE IF symlink_metadata(f, link_path) = "NotFound"
  THEN Bind(create_dir_all(f, Parent(link_path)), LAMBDA d :
         IF ~d.ok THEN Ensured(d, "Created")
         ELSE Ensured(symlink(d.fs, target, link_path), "Created"))
  ELSE [ok |-> FALSE, fs |-> f, result |-> "Err"]

ensure_symlink(f, link_path, target) ==
  IF symlink_metadata(f, link_path) = "ok"
  THEN (IF LKind(f, link_path) # "link"
        THEN [ok |-> TRUE, fs |-> f, result |-> "SkippedNonSymlink"]
        ELSE IF PointsTo(f, LRealPath(f, link_path), target)
        THEN [ok |-> TRUE, fs |-> f, result |-> "Unchanged"]
        ELSE Ensured(symlink(remove_path(f, link_path), target, link_path), "Updated"))
  ELSE IF symlink_metadata(f, link_path) = "NotFound"
  THEN Bind(create_dir_all(f, Parent(link_path)), LAMBDA d :
         IF ~d.ok THEN Ensured(d, "Created")
         ELSE Ensured(symlink(d.fs, target, link_path), "Created"))
  ELSE [ok |-> FALSE, fs |-> f, result |-> "Err"]

(* walker.rs ensure_omarchy_default_theme_link: the alias is made or       *)
(* repaired by ensure_symlink; SkippedNonSymlink only warns.               *)
walker_ensure_omarchy_default_theme_link(f) ==
  IF resolve_walker_default(f) = None THEN [ok |-> TRUE, fs |-> f, result |-> "NoDefault"]
  ELSE ensure_symlink(f, Append(WalkerThemesDir, OMARCHY_DEFAULT_THEME_NAME),
                      resolve_walker_default(f)[1].path)

(* hyprlock.rs ensure_omarchy_default_theme_link: the alias is made when   *)
(* nothing exists (links followed) at its path.                            *)
omarchy_default_hyprlock_theme_dir(f) ==
  IF resolve_hyprlock_default(f) = None THEN None
  ELSE Some(resolve_hyprlock_default(f)[1].path)

hyprlock_ensure_omarchy_default_theme_link(f) ==
  IF omarchy_default_hyprlock_theme_dir(f) = None
  THEN [ok |-> TRUE, fs |-> f, result |-> "NoDefault"]
  ELSE IF exists(f, Append(HyprlockThemesDir, OMARCHY_DEFAULT_THEME_NAME))
  THEN [ok |-> TRUE, fs |-> f, result |-> "Unchanged"]
  ELSE Bind(create_dir_all(f, HyprlockThemesDir), LAMBDA d :
         IF ~d.ok THEN Ensured(d, "Created")
         ELSE Ensured(symlink(d.fs, omarchy_default_hyprlock_theme_dir(f)[1],
                              Append(HyprlockThemesDir, OMARCHY_DEFAULT_THEME_NAME)),
                      "Created"))

(***************************************************************************)
(* SpecLinks and SpecResolve: default bundles as an Omarchy installation   *)
(* lays them out, and an alias path in each state a user or an earlier     *)
(* run may have left it in.                                                *)
(***************************************************************************)
PathTo(p) == [q \in {SubSeq(p, 1, i) : i \in 1..(Len(p) - 1)} |-> DirNode]
FileAt(p, c) == (p :> FileNode(c)) @@ PathTo(p)
DirAt(p) == (p :> DirNode) @@ PathTo(p)

(* One layout of the defaults: the kinds of candidate that are complete,   *)
(* the kinds whose folder is there without (all of) its marker files, and  *)
(* whether the user's own omarchy config holds a hyprlock default.         *)
DefaultsFs(present, hollow, home) ==
  (IF "named" \in present
   THEN FileAt(OmarchyRoot \o <<"default", "walker", "themes", "omarchy-default", "style.css">>, <<"wn">>)
        @@ FileAt(OmarchyRoot \o <<"default", "hyprlock", "themes", "omarchy-default", "hyprlock.conf">>, <<"hn">>)
        @@ FileAt(OmarchyRoot \o <<"default", "starship", "themes", "omarchy-default.toml">>, <<"sn">>)
        @@ FileAt(OmarchyRoot \o <<"default", "waybar", "themes", "omarchy-default", "config.jsonc">>, <<"cn">>)
        @@ FileAt(OmarchyRoot \o <<"default", "waybar", "themes", "omarchy-default", "style.css">>, <<"yn">>)
   ELSE EmptyFs)
  @@ (IF "named" \in hollow
      THEN DirAt(OmarchyRoot \o <<"default", "walker", "themes", "omarchy-default">>)
           @@ DirAt(OmarchyRoot \o <<"default", "hyprlock", "themes", "omarchy-default">>)
           @@ DirAt(OmarchyRoot \o <<"default", "starship", "themes">>)
           @@ FileAt(OmarchyRoot \o <<"default", "waybar", "themes", "omarchy-default", "config.jsonc">>, <<"cn">>)
      ELSE EmptyFs)
  @@ (IF "base" \in present
      THEN FileAt(OmarchyRoot \o <<"default", "walker", "style.css">>, <<"wb">>)
           @@ FileAt(OmarchyRoot \o <<"default", "hyprlock", "hyprlock.conf">>, <<"hb">>)
           @@ FileAt(OmarchyRoot \o <<"default", "starship.toml">>, <<"sb">>)
           @@ FileAt(OmarchyRoot \o <<"default", "waybar", "config.jsonc">>, <<"cb">>)
           @@ FileAt(OmarchyRoot \o <<"default", "waybar", "style.css">>, <<"yb">>)
      ELSE EmptyFs)
  @@ (IF "store" \in present
      THEN FileAt(OmarchyRoot \o <<"themes", "omarchy-default", "hyprlock.conf">>, <<"hs">>)
           @@ FileAt(OmarchyRoot \o <<"default", "starship", "starship.toml">>, <<"ss">>)
      ELSE EmptyFs)
  @@ (IF "config" \in present
      THEN FileAt(OmarchyRoot \o <<"config", "hypr", "hyprlock.conf">>, <<"hc">>)
           @@ FileAt(OmarchyRoot \o <<"config", "starship.toml">>, <<"sc">>)
           @@ FileAt(OmarchyRoot \o <<"config", "waybar", "config.jsonc">>, <<"cc">>)
           @@ FileAt(OmarchyRoot \o <<"config", "waybar", "style.css">>, <<"yc">>)
      ELSE EmptyFs)
  @@ (IF home
      THEN FileAt(OmarchyConfigDir \o <<"default", "hyprlock", "hyprlock.conf">>, <<"hh">>)
      ELSE EmptyFs)
  @@ DirAt(<<"elsewhere">>)

DefaultLayouts ==
  {DefaultsFs(l[1], l[2], home) :
     l \in {<<{}, {}>>, <<{"named"}, {}>>, <<{"base"}, {}>>, <<{"named", "base"}, {}>>,
            <<{"base"}, {"named"}>>, <<{"store", "config"}, {}>>, <<{"config"}, {"named"}>>},
     home \in BOOLEAN}

(* The alias paths of the three subsystems that keep one. *)
WalkerAlias == Append(WalkerThemesDir, OMARCHY_DEFAULT_THEME_NAME)
HyprlockAlias == Append(HyprlockThemesDir, OMARCHY_DEFAULT_THEME_NAME)
StarshipAlias == Append(StarshipThemesDir, "omarchy-default.toml")
AliasPaths == {WalkerAlias, HyprlockAlias, StarshipAlias}

ResolvedPath(r) == IF r = None THEN <<"elsewhere">> ELSE r[1].path

(* An alias path as it may be found: absent, a link to the default now in  *)
(* force, a link to another place, a link to a place that is gone, a       *)
(* regular file, a directory with content.                                 *)
AliasKinds == {"absent", "current", "elsewhere", "dangling", "file", "dir"}
AliasAt(p, kind, current) ==
  CASE kind = "absent" -> EmptyFs
    [] kind = "current" -> (p :> LinkNode(current)) @@ PathTo(p)
    [] kind = "elsewhere" -> (p :> LinkNode(<<"elsewhere">>)) @@ PathTo(p)
    [] kind = "dangling" -> (p :> LinkNode(<<"gone">>)) @@ PathTo(p)
    [] kind = "file" -> FileAt(p, <<"user">>)
    [] kind = "dir" -> FileAt(Append(p, "keep"), <<"user">>) @@ DirAt(p)

WithAliases(d, kind) ==
  AliasAt(WalkerAlias, kind, ResolvedPath(resolve_walker_default(d)))
  @@ AliasAt(HyprlockAlias, kind, ResolvedPath(resolve_hyprlock_default(d)))
  @@ AliasAt(StarshipAlias, kind, ResolvedPath(resolve_starship_default(d)))
  @@ d

LinkTargets == {OmarchyRoot \o <<"default", "walker">>, <<"elsewhere">>}

InitLinks ==
  /\ fs \in {WithAliases(d, kind) : d \in DefaultLayouts, kind \in AliasKinds}
  /\ InitCommon

(* ensure_symlink(link_path, target), called directly. *)
EnsureSymlinkCall(links, targets) ==
  /\ pc = "idle"
  /\ ncmds < MaxCmds
  /\ \E link_path \in links, target \in targets :
       \E r \in {ensure_symlink(fs, link_path, target)} :
         /\ fs' = r.fs
         /\ sel' = [cmd |-> "ensure_symlink", link_path |-> link_path, target |-> target,
                    outcome |-> r.result]
  /\ ncmds' = ncmds + 1
  /\ UNCHANGED <<pc, ctx, result, now, fs0, applied>>

(* ensure_omarchy_default_theme_link of a subsystem, as its applier calls  *)
(* it first.                                                               *)
EnsureDefaultLink(modules) ==
  /\ pc = "idle"
  /\ ncmds < MaxCmds
  /\ \E m \in modules :
       \E r \in {CASE m = "walker" -> walker_ensure_omarchy_default_theme_link(fs)
                   [] m = "hyprlock" -> hyprlock_ensure_omarchy_default_theme_link(fs)
                   [] m = "starship" ->
                        Ensured(starship_ensure_omarchy_default_theme_link(fs), "Done")} :
         /\ fs' = r.fs
         /\ sel' = [cmd |-> "ensure_default", module |-> m, outcome |-> r.result]
  /\ ncmds' = ncmds + 1
  /\ UNCHANGED <<pc, ctx, result, now, fs0, applied>>

NextLinks ==
  \/ EnsureSymlinkCall(AliasPaths, LinkTargets)
  \/ EnsureDefaultLink({"walker", "hyprlock", "starship"})

SpecLinks == InitLinks /\ [][NextLinks]_vars

(* C11: a call of ensure_symlink that directly follows a call with the     *)
(* same link path and target changes nothing in the file system and does  *)
(* not return an error.                                                    *)
C11_EnsureSymlinkIdempotent ==
  [][(/\ sel.cmd = "ensure_symlink"
      /\ sel'.cmd = "ensure_symlink"
      /\ ncmds' = ncmds + 1
      /\ sel'.link_path = sel.link_path
      /\ sel'.target = sel.target)
     => (fs' = fs /\ sel'.outcome # "Err")]_vars

(* A first call that repaired a dangling alias, followed by a second call  *)
(* with the same target. *)
C11_Witness ==
  /\ ncmds = 2
  /\ sel.cmd = "ensure_symlink"
  /\ sel.outcome = "Unchanged"
  /\ sel.link_path = WalkerAlias
  /\ sel.target = OmarchyRoot \o <<"default", "walker">>
  /\ KindAt(fs, <<"gone">>) = "absent"
  /\ fs[WalkerAlias] = LinkNode(OmarchyRoot \o <<"default", "walker">>)


(* C12: when the link path is a regular file or a directory, ensure_symlink *)
(* returns SkippedNonSymlink and changes nothing; walker's default-link    *)
(* step, which calls it, then returns success with the alias path and its  *)
(* content as they were.                                                   *)
C12_NonSymlinkSkipped ==
  [][/\ (/\ sel'.cmd = "ensure_symlink"
         /\ ncmds' = ncmds + 1
         /\ LKind(fs, sel'.link_path) \in {"file", "dir"})
        => (sel'.outcome = "SkippedNonSymlink" /\ fs' = fs)
     /\ (/\ sel'.cmd = "ensure_default"
         /\ sel'.module = "walker"
         /\ ncmds' = ncmds + 1
         /\ LKind(fs, WalkerAlias) \in {"file", "dir"}
         /\ resolve_walker_default(fs) # None)
        => (sel'.outcome = "SkippedNonSymlink" /\ fs' = fs)]_vars

(* Walker's default-link step has met a directory of the user's at the     *)
(* alias path while a default bundle is installed.                         *)
C12_Witness ==
  /\ sel.cmd = "ensure_default"
  /\ sel.module = "walker"
  /\ sel.outcome = "SkippedNonSymlink"
  /\ resolve_walker_default(fs) # None
  /\ LKind(fs, WalkerAlias) = "dir"
  /\ Append(WalkerAlias, "keep") \in DOMAIN fs
  /\ fs[Append(WalkerAlias, "keep")] = FileNode(<<"user">>)


(* The resolver of a subsystem (omarchy_defaults.rs resolve_*_default). *)
DefaultModules == {"waybar", "walker", "hyprlock", "starship"}
resolve_default(f, m) ==
  CASE m = "waybar" -> resolve_waybar_default(f)
    [] m = "walker" -> resolve_walker_default(f)
    [] m = "hyprlock" -> resolve_hyprlock_default(f)
    [] m = "starship" -> resolve_starship_default(f)

ResolveDefault(modules) ==
  /\ pc = "idle"
  /\ ncmds < MaxCmds
  /\ \E m \in modules :
       sel' = [cmd |-> "resolve", module |-> m, found |-> resolve_default(fs, m)]
  /\ ncmds' = ncmds + 1
  /\ UNCHANGED <<fs, pc, ctx, result, now, fs0, applied>>

NextResolve ==
  \/ NextLinks
  \/ ResolveDefault(DefaultModules)

SpecResolve == InitLinks /\ [][NextResolve]_vars

(* The candidates of a subsystem in the order of the source, and the       *)
(* marker files a candidate must hold.                                     *)
CandidatesOf(m) ==
  CASE m = "waybar" -> WaybarCandidates(OmarchyRoot)
    [] m = "walker" -> WalkerCandidates(OmarchyRoot)
    [] m = "hyprlock" -> HyprlockRootCandidates(OmarchyRoot) \o HyprlockHomeCandidates
    [] m = "starship" -> StarshipCandidates(OmarchyRoot)
HasMarkers(f, m, p) ==
  CASE m = "waybar" -> is_file(f, Append(p, "config.jsonc")) /\ is_file(f, Append(p, "style.css"))
    [] m = "walker" -> is_file(f, Append(p, "style.css"))
    [] m = "hyprlock" -> is_file(f, Append(p, "hyprlock.conf"))
    [] m = "starship" -> is_file(f, p)
KindRank(kind) ==
  CASE kind = "OmarchyDefaultNamed" -> 1
    [] kind = "OmarchyDefaultBase" -> 2
    [] kind = "OmarchyThemeStoreDefault" -> 3
    [] kind = "OmarchyConfigFallback" -> 4
    [] kind = "OmarchyUserConfigFallback" -> 5

(* C13: the resolver of a subsystem returns the first candidate, in the    *)
(* order named folder, base folder, theme-store entry, config fallback,    *)
(* that holds its marker files, and nothing when no candidate does; and    *)
(* the default-link step of a subsystem whose resolver finds nothing       *)
(* creates nothing.                                                        *)
C13_FirstCandidateWins ==
  [][/\ (sel'.cmd = "resolve" /\ ncmds' = ncmds + 1)
        => \E cs \in {CandidatesOf(sel'.module)} :
             /\ \A i, j \in DOMAIN cs : i < j => KindRank(cs[i][2]) <= KindRank(cs[j][2])
             /\ (sel'.found = None)
                  <=> (\A i \in DOMAIN cs : ~HasMarkers(fs, sel'.module, cs[i][1]))
             /\ sel'.found # None
                  => \E i \in DOMAIN cs :
                       /\ sel'.found[1] = [path |-> cs[i][1], kind |-> cs[i][2]]
                       /\ HasMarkers(fs, sel'.module, cs[i][1])
                       /\ \A j \in 1..(i - 1) : ~HasMarkers(fs, sel'.module, cs[j][1])
     /\ (/\ sel'.cmd = "ensure_default"
         /\ ncmds' = ncmds + 1
         /\ resolve_default(fs, sel'.module) = None)
        => fs' = fs]_vars

(* The hyprlock resolver has passed over a named folder without its marker *)
(* and returned the base folder, while lower candidates held markers too.  *)
C13_Witness ==
  /\ sel.cmd = "resolve"
  /\ sel.module = "hyprlock"
  /\ sel.found # None
  /\ sel.found[1].kind = "OmarchyDefaultBase"
  /\ is_dir(fs, OmarchyRoot \o <<"default", "hyprlock", "themes", "omarchy-default">>)
  /\ is_file(fs, OmarchyConfigDir \o <<"default", "hyprlock", "hyprlock.conf">>)


(***************************************************************************)
(* walker.rs                                                               *)
(***************************************************************************)
AUTO_THEME_NAME == "theme-manager-auto"
WalkerConfig == Append(WalkerDir, "config.toml")
WalkerAutoDir == Append(WalkerThemesDir, AUTO_THEME_NAME)

(* config.toml is a sequence of lines.  A theme assignment is a line whose *)
(* text before '=' trims to "theme".                                       *)
WalkerThemeNames == {"old", "neon", "nowhere", AUTO_THEME_NAME, OMARCHY_DEFAULT_THEME_NAME}
ThemeLine(name) == "theme = \"" \o name \o "\""
is_theme_assignment(line) == \E n \in WalkerThemeNames : line = ThemeLine(n)
IsCommentOrBlank(line) == line \in {"", "# walker"}
InsertAt(lines, pos, x) == SubSeq(lines, 1, pos) \o <<x>> \o SubSeq(lines, pos + 1, Len(lines))
InsertPos(lines) ==
  IF \A i \in DOMAIN lines : IsCommentOrBlank(lines[i]) THEN 0
  ELSE (CHOOSE i \in DOMAIN lines :
          /\ ~IsCommentOrBlank(lines[i])
          /\ \A j \in 1..(i - 1) : IsCommentOrBlank(lines[j])) - 1

(* An update that takes every key starting with "theme" for the theme key. *)
WithThemeByPrefix(content, theme_name) ==
  [i \in DOMAIN content |->
     IF is_theme_assignment(content[i])
        \/ content[i] \in {"theme_name = \"keep\"", "theme_variant = \"keep\""}
     THEN ThemeLine(theme_name) ELSE content[i]]

WithTheme(content, theme_name) ==
  IF \E i \in DOMAIN content : is_theme_assignment(content[i])
  THEN [i \in DOMAIN content |->
          IF is_theme_assignment(content[i]) THEN ThemeLine(theme_name) ELSE content[i]]
  ELSE InsertAt(content, InsertPos(content), ThemeLine(theme_name))

update_walker_config(f, theme_name) ==
  IF ~is_file(f, WalkerConfig) THEN [ok |-> TRUE, fs |-> f]
  ELSE write(f, WalkerConfig, WithTheme(read_to_string(f, WalkerConfig), theme_name))

(* A cleanup that leaves the auto theme folder in place. *)
cleanup_auto_theme_dir_keeping(f, walker_themes_dir) == [ok |-> TRUE, fs |-> f]

cleanup_auto_theme_dir(f, walker_themes_dir) ==
  IF ~exists(f, Append(walker_themes_dir, AUTO_THEME_NAME)) THEN [ok |-> TRUE, fs |-> f]
  ELSE [ok |-> TRUE, fs |-> remove_path(f, Append(walker_themes_dir, AUTO_THEME_NAME))]

(* The regular files (links followed) of a theme folder, by name. *)
FileNames(f, dir) == {Last(q) : q \in {q \in Children(f, RealPath(f, dir)) : is_file(f, q)}}

(* style.css, layout.xml and every other file of the folder are copied     *)
(* into themes/theme-manager-auto, then the config names that theme.       *)
walker_apply_copy(f, theme_dir) ==
  Bind(cleanup_auto_theme_dir(f, WalkerThemesDir), LAMBDA cl :
  Bind(create_dir_all(cl.fs, WalkerAutoDir), LAMBDA d :
    IF ~d.ok THEN d
    ELSE update_walker_config(
           [q \in {RealPath(d.fs, WalkerAutoDir) \o <<n>> : n \in FileNames(f, theme_dir)} |->
              FileNode(read_to_string(f, Append(theme_dir, Last(q))))] @@ d.fs,
           AUTO_THEME_NAME)))

walker_apply_symlink(f, theme_dir) ==
  Bind(cleanup_auto_theme_dir(f, WalkerThemesDir), LAMBDA cl :
  Bind(create_dir_all(cl.fs, WalkerAutoDir), LAMBDA d :
    IF ~d.ok THEN d
    ELSE update_walker_config(
           [q \in {RealPath(d.fs, WalkerAutoDir) \o <<n>> : n \in FileNames(f, theme_dir)} |->
              LinkNode(Append(theme_dir, Last(q)))] @@ d.fs,
           AUTO_THEME_NAME)))

WalkerThemeDir(c, theme_dir) ==
  CASE c.walker_mode = "None" -> None
    [] c.walker_mode = "Auto" -> Some(Append(theme_dir, "walker-theme"))
    [] c.walker_mode = "Named" ->
         IF c.walker_name = None THEN None
         ELSE Some(Append(WalkerThemesDir, c.walker_name[1]))

(* A prepare_walker without the checks of the theme folder and style.css. *)
prepare_walker_unchecked(f, c, theme_dir) ==
  Bind(walker_ensure_omarchy_default_theme_link(f), LAMBDA e :
    IF ~e.ok THEN [ok |-> FALSE, fs |-> e.fs]
    ELSE IF WalkerThemeDir(c, theme_dir) = None THEN [ok |-> TRUE, fs |-> e.fs]
    ELSE IF c.walker_mode = "Named" THEN update_walker_config(e.fs, c.walker_name[1])
    ELSE [ok |-> TRUE, fs |-> e.fs])

prepare_walker(f, c, theme_dir) ==
  Bind(walker_ensure_omarchy_default_theme_link(f), LAMBDA e :
    IF ~e.ok THEN [ok |-> FALSE, fs |-> e.fs]
    ELSE IF WalkerThemeDir(c, theme_dir) = None THEN [ok |-> TRUE, fs |-> e.fs]
    ELSE Bind(WalkerThemeDir(c, theme_dir)[1], LAMBDA walker_theme_dir :
      IF ~is_dir(e.fs, walker_theme_dir) THEN [ok |-> TRUE, fs |-> e.fs]
      ELSE IF ~is_file(e.fs, Append(walker_theme_dir, "style.css"))
        THEN [ok |-> TRUE, fs |-> e.fs]
      ELSE IF c.walker_mode = "Named" THEN update_walker_config(e.fs, c.walker_name[1])
      ELSE Bind(cleanup_auto_theme_dir(e.fs, WalkerThemesDir), LAMBDA cl :
             IF c.walker_apply_mode = "copy" THEN walker_apply_copy(cl.fs, walker_theme_dir)
             ELSE walker_apply_symlink(cl.fs, walker_theme_dir))))


(***************************************************************************)
(* hyprlock.rs.  A hyprlock.conf is a sequence of lines.                   *)
(***************************************************************************)
HyprlockMain == Append(HyprlockDir, "hyprlock.conf")
CurrentHyprlockConf == Append(CurrentThemeLink, "hyprlock.conf")
CURRENT_THEME_SOURCE_LINE == "source = ~/.config/omarchy/current/theme/hyprlock.conf"
MINIMAL_SOURCE_ONLY_HYPRLOCK ==
  <<CURRENT_THEME_SOURCE_LINE, "general {", "animations {", "auth {">>
WidgetTokens == {"background {", "input-field {", "label {", "image {", "shape {"}
Lines(content) == {content[i] : i \in DOMAIN content}

(* content.contains(CURRENT_THEME_SOURCE_SUFFIX) *)
SourcesCurrentTheme(content) == CURRENT_THEME_SOURCE_LINE \in Lines(content)
is_style_only_hyprlock_config(f, path) == Lines(read_to_string(f, path)) \cap WidgetTokens = {}

omarchy_base_hyprlock_wrapper(f) ==
  IF detect_omarchy_root(f) = None THEN None
  ELSE IF is_file(f, detect_omarchy_root(f)[1] \o <<"config", "hypr", "hyprlock.conf">>)
  THEN Some(read_to_string(f, detect_omarchy_root(f)[1] \o <<"config", "hypr", "hyprlock.conf">>))
  ELSE None

DesiredMain(f, source_config) ==
  IF is_style_only_hyprlock_config(f, source_config) /\ omarchy_base_hyprlock_wrapper(f) # None
  THEN omarchy_base_hyprlock_wrapper(f)[1]
  ELSE MINIMAL_SOURCE_ONLY_HYPRLOCK

(* fs::read_to_string(path).unwrap_or_default(): the text of the file, or  *)
(* "" when the file cannot be read or its bytes are not UTF-8.  A line     *)
(* InvalidUtf8Line stands for bytes that are not UTF-8.                    *)
InvalidUtf8Line == "# caf\\xe9"
IsUtf8(content) == InvalidUtf8Line \notin Lines(content)
read_to_string_or_default(f, p) ==
  IF is_file(f, p) /\ IsUtf8(read_to_string(f, p)) THEN read_to_string(f, p) ELSE <<>>

(* The host hyprlock.conf is rewritten only when it is empty, missing or   *)
(* already sources the current theme's hyprlock.conf.                      *)
ensure_main_hyprlock_mode(f, source_config) ==
  Bind(create_dir_all(f, HyprlockDir), LAMBDA d :
    IF ~d.ok THEN d
    ELSE Bind(read_to_string_or_default(d.fs, HyprlockMain), LAMBDA existing :
      IF existing # <<>> /\ ~SourcesCurrentTheme(existing) THEN d
      ELSE IF existing # DesiredMain(d.fs, source_config)
        THEN write(d.fs, HyprlockMain, DesiredMain(d.fs, source_config))
      ELSE d))

remove_existing(f, path) == IF lexists(f, path) THEN remove_path(f, path) ELSE f

hyprlock_apply_copy(f, source_config) ==
  Bind(create_dir_all(f, CurrentThemeLink), LAMBDA d :
    IF ~d.ok THEN d
    ELSE copy(remove_existing(d.fs, CurrentHyprlockConf), source_config, CurrentHyprlockConf))

hyprlock_apply_symlink(f, source_config) ==
  Bind(create_dir_all(f, CurrentThemeLink), LAMBDA d :
    IF ~d.ok THEN d
    ELSE symlink(remove_existing(d.fs, CurrentHyprlockConf), source_config, CurrentHyprlockConf))

HyprlockApply(f, c, source_config) ==
  Bind(ensure_main_hyprlock_mode(f, source_config), LAMBDA m :
    IF ~m.ok THEN m
    ELSE IF c.hyprlock_apply_mode = "copy" THEN hyprlock_apply_copy(m.fs, source_config)
    ELSE hyprlock_apply_symlink(m.fs, source_config))

(* Named "omarchy-default": the hyprlock.conf of the selected theme, else  *)
(* of the theme the live path names.                                       *)
apply_omarchy_default_theme_hyprlock(f, c, theme_dir) ==
  IF is_file(f, Append(theme_dir, "hyprlock.conf"))
  THEN HyprlockApply(f, c, Append(theme_dir, "hyprlock.conf"))
  ELSE IF /\ current_theme_name(f, CurrentThemeLink) # None
          /\ is_file(f, ThemeRootDir \o <<current_theme_name(f, CurrentThemeLink)[1],
                                          "hyprlock.conf">>)
  THEN HyprlockApply(f, c, ThemeRootDir \o <<current_theme_name(f, CurrentThemeLink)[1],
                                             "hyprlock.conf">>)
  ELSE [ok |-> TRUE, fs |-> f]

(* A mode resolution in which None falls back to the theme's own bundle. *)
HyprlockThemeDirAutoForNone(c, theme_dir) ==
  IF c.hyprlock_mode = "Named" /\ c.hyprlock_name # None
  THEN Some(Append(HyprlockThemesDir, c.hyprlock_name[1]))
  ELSE Some(Append(theme_dir, "hyprlock-theme"))

HyprlockThemeDir(c, theme_dir) ==
  CASE c.hyprlock_mode = "None" -> None
    [] c.hyprlock_mode = "Auto" -> Some(Append(theme_dir, "hyprlock-theme"))
    [] c.hyprlock_mode = "Named" ->
         IF c.hyprlock_name = None THEN None
         ELSE Some(Append(HyprlockThemesDir, c.hyprlock_name[1]))

prepare_hyprlock(f, c, theme_dir) ==
  Bind(hyprlock_ensure_omarchy_default_theme_link(f), LAMBDA e :
    IF ~e.ok THEN [ok |-> FALSE, fs |-> e.fs]
    ELSE IF c.hyprlock_mode = "Named" /\ c.hyprlock_name = Some(OMARCHY_DEFAULT_THEME_NAME)
      THEN apply_omarchy_default_theme_hyprlock(e.fs, c, theme_dir)
    ELSE IF HyprlockThemeDir(c, theme_dir) = None THEN [ok |-> TRUE, fs |-> e.fs]
    ELSE Bind(HyprlockThemeDir(c, theme_dir)[1], LAMBDA hyprlock_theme_dir :
      IF ~is_dir(e.fs, hyprlock_theme_dir) THEN [ok |-> TRUE, fs |-> e.fs]
      ELSE IF ~is_file(e.fs, Append(hyprlock_theme_dir, "hyprlock.conf"))
        THEN [ok |-> TRUE, fs |-> e.fs]
      ELSE HyprlockApply(e.fs, c, Append(hyprlock_theme_dir, "hyprlock.conf"))))


(***************************************************************************)
(* SpecApply: one standalone applier command (lib.rs apply_waybar_only,    *)
(* apply_walker_only, apply_hyprlock_only, apply_starship_only) from each  *)
(* state of the user's configuration.                                      *)
(***************************************************************************)
apply_walker_only(c, restart_ok) ==
  /\ ncmds' = ncmds + 1
  /\ fs0' = LiveView(fs)
  /\ ctx' = [c EXCEPT !.cmd = "walker"]
  /\ IF c.skip_apps THEN result' = Ok("walker") /\ fs' = fs
     ELSE IF current_theme_dir(fs, CurrentThemeLink) = NoPath
     THEN result' = Err("walker", "io") /\ fs' = fs
     ELSE \E r \in {prepare_walker(fs, c, current_theme_dir(fs, CurrentThemeLink))} :
            /\ fs' = r.fs
            /\ result' = IF ~r.ok THEN Err("walker", "walker")
                         ELSE IF ~restart_ok THEN Err("walker", "omarchy-restart-walker")
                         ELSE Ok("walker")
  /\ UNCHANGED <<pc, now, sel, applied>>

apply_hyprlock_only(c, restart_ok) ==
  /\ ncmds' = ncmds + 1
  /\ fs0' = LiveView(fs)
  /\ ctx' = [c EXCEPT !.cmd = "hyprlock"]
  /\ IF c.skip_apps THEN result' = Ok("hyprlock") /\ fs' = fs
     ELSE IF current_theme_dir(fs, CurrentThemeLink) = NoPath
     THEN result' = Err("hyprlock", "io") /\ fs' = fs
     ELSE \E r \in {prepare_hyprlock(fs, c, current_theme_dir(fs, CurrentThemeLink))} :
            /\ fs' = r.fs
            /\ result' = IF ~r.ok THEN Err("hyprlock", "hyprlock")
                         ELSE IF ~restart_ok THEN Err("hyprlock", "omarchy-restart-hyprlock")
                         ELSE Ok("hyprlock")
  /\ UNCHANGED <<pc, now, sel, applied>>

apply_starship_only(c) ==
  /\ ncmds' = ncmds + 1
  /\ fs0' = LiveView(fs)
  /\ ctx' = [c EXCEPT !.cmd = "starship"]
  /\ IF c.skip_apps THEN result' = Ok("starship") /\ fs' = fs
     ELSE IF current_theme_dir(fs, CurrentThemeLink) = NoPath
     THEN result' = Err("starship", "io") /\ fs' = fs
     ELSE \E r \in {apply_starship(fs, c, current_theme_dir(fs, CurrentThemeLink))} :
            /\ fs' = r.fs
            /\ result' = IF ~r.ok THEN Err("starship", r.msg) ELSE Ok("starship")
  /\ UNCHANGED <<pc, now, sel, applied>>

CmdWaybarOnce(ctxs) ==
  /\ ncmds = 0
  /\ CmdWaybar(ctxs)

CmdWalker(ctxs) ==
  /\ pc = "idle"
  /\ ncmds = 0
  /\ \E c \in ctxs, restart_ok \in BOOLEAN : apply_walker_only(c, restart_ok)

CmdHyprlock(ctxs) ==
  /\ pc = "idle"
  /\ ncmds = 0
  /\ \E c \in ctxs, restart_ok \in BOOLEAN : apply_hyprlock_only(c, restart_ok)

CmdStarship(ctxs) ==
  /\ pc = "idle"
  /\ ncmds = 0
  /\ \E c \in ctxs : apply_starship_only(c)

(* The modes a command line can ask for. *)
ApplyWaybarContexts ==
  { [NoCtx EXCEPT !.waybar_mode = m[1], !.waybar_name = m[2], !.waybar_apply_mode = a] :
      m \in {<<"None", None>>, <<"Auto", None>>, <<"Named", None>>,
             <<"Named", Some("shared")>>, <<"Named", Some("nowhere")>>,
             <<"Named", Some("hollow")>>},
      a \in {"symlink", "copy"} }
WalkerContexts ==
  { [NoCtx EXCEPT !.walker_mode = m[1], !.walker_name = m[2], !.walker_apply_mode = a] :
      m \in {<<"None", None>>, <<"Auto", None>>, <<"Named", None>>,
             <<"Named", Some("neon")>>, <<"Named", Some("nowhere")>>,
             <<"Named", Some("hollow")>>},
      a \in {"symlink", "copy"} }
HyprlockContexts ==
  { [NoCtx EXCEPT !.hyprlock_mode = m[1], !.hyprlock_name = m[2], !.hyprlock_apply_mode = a] :
      m \in {<<"None", None>>, <<"Auto", None>>, <<"Named", None>>,
             <<"Named", Some("shared")>>, <<"Named", Some("nowhere")>>,
             <<"Named", Some("hollow")>>, <<"Named", Some(OMARCHY_DEFAULT_THEME_NAME)>>},
      a \in {"symlink", "copy"} }
StarshipContexts ==
  { [NoCtx EXCEPT !.starship_mode = m[1], !.starship_cmd = m[2]] :
      m \in {<<NoStarship, "ok">>,
             <<[m |-> "Preset", v |-> "nerd"], "ok">>,
             <<[m |-> "Preset", v |-> "nerd"], "missing">>,
             <<[m |-> "Preset", v |-> "nerd"], "failed">>,
             <<[m |-> "Named", v |-> "night"], "ok">>,
             <<[m |-> "Named", v |-> "nowhere"], "ok">>,
             <<[m |-> "Theme", v |-> ""], "ok">>} }

(* The live theme: one with every bundle, one whose bundles are missing or *)
(* lack their marker files.                                                *)
FullTheme ==
  AlphaTree \cup
  {<<<<"walker-theme">>, DirNode>>,
   <<<<"walker-theme", "style.css">>, FileNode(<<"wa">>)>>,
   <<<<"walker-theme", "layout.xml">>, FileNode(<<"la">>)>>,
   <<<<"hyprlock-theme">>, DirNode>>,
   <<<<"hyprlock-theme", "hyprlock.conf">>, FileNode(<<"background {", "ha">>)>>,
   <<<<"hyprlock.conf">>, FileNode(<<"color = a">>)>>}
BareTheme ==
  {<<<<>>, DirNode>>,
   <<<<"waybar-theme">>, DirNode>>,
   <<<<"waybar-theme", "config.jsonc">>, FileNode(<<"cb">>)>>,
   <<<<"walker-theme">>, DirNode>>,
   <<<<"walker-theme", "layout.xml">>, FileNode(<<"lb">>)>>}

(* Named bundles in the subsystems' theme folders; "hollow" lacks the      *)
(* marker file.                                                            *)
NamedBundles ==
  FileAt(WalkerThemesDir \o <<"neon", "style.css">>, <<"wn">>)
  @@ FileAt(WalkerThemesDir \o <<"hollow", "layout.xml">>, <<"lh">>)
  @@ FileAt(HyprlockThemesDir \o <<"shared", "hyprlock.conf">>, <<"hs">>)
  @@ FileAt(HyprlockThemesDir \o <<"hollow", "notes">>, <<"n">>)
  @@ FileAt(WaybarThemesDir \o <<"hollow", "config.jsonc">>, <<"ch">>)

(* The user's own walker configuration and host hyprlock.conf. *)
UserWalkerStates ==
  { DirAt(WalkerDir),
    FileAt(WalkerConfig, <<"# walker", ThemeLine("old"), "width = 1">>),
    FileAt(WalkerConfig, <<"# walker", "width = 1">>)
      @@ FileAt(Append(WalkerAutoDir, "style.css"), <<"stale">>) }
UserHyprlockStates ==
  { DirAt(HyprlockDir),
    FileAt(HyprlockMain, <<CURRENT_THEME_SOURCE_LINE, "general {">>),
    FileAt(HyprlockMain, <<"source = ~/.config/hypr/other.conf">>) }

ApplyDefaults ==
  { WithAliases(DefaultsFs(l, {}, FALSE), kind) :
      l \in {{}, {"base"}}, kind \in {"absent", "dangling", "dir"} }

InitApply ==
  /\ fs \in { CurrentDir @@ Tree(CurrentThemeLink, t) @@ Sidecar("alpha") @@ w @@ h @@ d
                @@ NamedBundles @@ ThemesFs @@ BundlesFs @@ UserStarship @@ UserWaybar :
              t \in {FullTheme, BareTheme}, w \in UserWalkerStates,
              h \in UserHyprlockStates, d \in ApplyDefaults }
  /\ InitCommon

NextApply ==
  \/ CmdWaybarOnce(ApplyWaybarContexts)
  \/ CmdWalker(WalkerContexts)
  \/ CmdHyprlock(HyprlockContexts)
  \/ CmdStarship(StarshipContexts)

SpecApply == InitApply /\ [][NextApply]_vars


(* The part of the file system a subsystem reads as its live config. *)
SubFs(f, roots, excl) ==
  [q \in {q \in DOMAIN f : /\ \E r \in roots : IsPrefix(r, q)
                           /\ ~\E e \in excl : IsPrefix(e, q)} |-> f[q]]
LiveConfig(f, m) ==
  CASE m = "waybar" -> SubFs(f, {WaybarDir}, {WaybarThemesDir})
    [] m = "walker" -> SubFs(f, {WalkerConfig, WalkerAutoDir}, {})
    [] m = "hyprlock" -> SubFs(f, {HyprlockMain, CurrentHyprlockConf}, {})
    [] m = "starship" -> SubFs(f, {StarshipConfig}, {})

(* The bundle a mode resolves to, and whether it is missing or lacks a     *)
(* marker file.                                                            *)
SourceOf(c, m, theme_dir) ==
  CASE m = "waybar" ->
         IF c.waybar_mode = "Auto" THEN Some(Append(theme_dir, "waybar-theme"))
         ELSE IF c.waybar_mode = "Named" /\ c.waybar_name # None
           THEN Some(Append(WaybarThemesDir, c.waybar_name[1]))
         ELSE None
    [] m = "walker" ->
         IF c.walker_mode = "Auto" THEN Some(Append(theme_dir, "walker-theme"))
         ELSE IF c.walker_mode = "Named" /\ c.walker_name # None
           THEN Some(Append(WalkerThemesDir, c.walker_name[1]))
         ELSE None
    [] m = "hyprlock" ->
         IF c.hyprlock_mode = "Auto" THEN Some(Append(theme_dir, "hyprlock-theme"))
         ELSE IF /\ c.hyprlock_mode = "Named"
                 /\ c.hyprlock_name \notin {None, Some(OMARCHY_DEFAULT_THEME_NAME)}
           THEN Some(Append(HyprlockThemesDir, c.hyprlock_name[1]))
         ELSE None
    [] m = "starship" ->
         IF c.starship_mode.m = "Theme" THEN Some(Append(theme_dir, "starship.toml"))
         ELSE IF c.starship_mode.m = "Named"
           THEN Some(Append(StarshipThemesDir, c.starship_mode.v \o ".toml"))
         ELSE None
BundleMissing(f, c, m) ==
  /\ exists(f, CurrentThemeLink)
  /\ \E src \in {SourceOf(c, m, current_theme_dir(f, CurrentThemeLink))} :
       /\ src # None
       /\ ~HasMarkers(f, m, src[1])
Appliers == {"waybar", "walker", "hyprlock", "starship"}

(* An applier has run (no skip_apps) on a bundle that is missing or lacks  *)
(* a marker file, before and after.                                        *)
RanOnMissingBundle(f, g, c, m) ==
  /\ c.cmd = m
  /\ ~c.skip_apps
  /\ BundleMissing(f, c, m)
  /\ BundleMissing(g, c, m)

DanglingHyprlockAlias(f) ==
  /\ resolve_hyprlock_default(f) # None
  /\ LKind(f, HyprlockAlias) = "link"
  /\ ~exists(f, HyprlockAlias)

(* The applier itself returned Ok: the command succeeded, or failed only  *)
(* in the restart that follows the applier.                                *)
ApplierOk(res, m) == res.status = "ok" \/ res.msg = "omarchy-restart-" \o m

SetLiveStates ==
  { EmptyFs,
    CurrentDir @@ Tree(CurrentThemeLink, {<<<<>>, LinkNode(<<"themes", "bravo">>)>>}),
    CurrentDir @@ Tree(CurrentThemeLink, {<<<<>>, FileNode(<<"stray">>)>>}),
    CurrentDir @@ Tree(CurrentThemeLink, OldTree) @@ Sidecar("ghost") }
ReloadThemes == {"alpha", "Bravo", "tag"}
ReloadContexts ==
  { [NoCtx EXCEPT !.skip_apps = TRUE,
                  !.starship_mode = [m |-> "Named", v |-> "nowhere"]],
    NoCtx,
    [NoCtx EXCEPT !.waybar_mode = "Auto"],
    [NoCtx EXCEPT !.starship_mode = [m |-> "Named", v |-> "night"]],
    [NoCtx EXCEPT !.starship_mode = [m |-> "Named", v |-> "nowhere"]],
    [NoCtx EXCEPT !.starship_mode = [m |-> "Preset", v |-> "nerd"]],
    [NoCtx EXCEPT !.starship_mode = [m |-> "Preset", v |-> "nerd"],
                  !.starship_cmd = "missing"],
    [NoCtx EXCEPT !.starship_mode = [m |-> "Preset", v |-> "nerd"],
                  !.starship_cmd = "failed"] }
ReloadEnvs ==
  {AllOk}
  \cup {[AllOk EXCEPT ![c] = "fail"] :
          c \in {"omarchy-theme-bg-next", "omarchy-restart-terminal", "omarchy-restart-waybar",
                 "makoctl", "pkill", "omarchy-theme-set-gnome", "omarchy-theme-set-obsidian"}}
  \cup {[AllOk EXCEPT ![c] = "missing"] :
          c \in {"omarchy-theme-bg-next", "omarchy-restart-waybar", "makoctl"}}
  \cup {[AllOk EXCEPT !["hyprctl"] = "missing", !["makoctl"] = "fail"]}

InitSet ==
  /\ fs \in {ThemesFs @@ BundlesFs @@ UserStarship @@ UserWaybar @@ l : l \in SetLiveStates}
  /\ InitCommon

NextSet ==
  \/ CmdSet(ReloadThemes, ReloadContexts)
  \/ StagePrepare
  \/ CopyEntry
  \/ CopyFail
  \/ TemplateHook
  \/ RemoveCurrent
  \/ RenameStaging
  \/ WriteThemeName
  \/ ApplyWaybar
  \/ ApplyStarship
  \/ Reload(ReloadEnvs)
  \/ HookScript({"ok"})

SpecSet == InitSet /\ [][NextSet]_vars

(* The starship source a mode needs is not there: no file of that name in  *)
(* the starship themes directory, or no working starship command.          *)
StarshipUnavailable(f, c) ==
  \/ /\ c.starship_mode.m = "Named"
     /\ ~is_file(f, Append(StarshipThemesDir, c.starship_mode.v \o ".toml"))
  \/ /\ c.starship_mode.m = "Preset"
     /\ c.starship_cmd # "ok"

ModeIsNone(c, m) ==
  CASE m = "waybar" -> c.waybar_mode = "None" \/ (c.waybar_mode = "Named" /\ c.waybar_name = None)
    [] m = "walker" -> c.walker_mode = "None" \/ (c.walker_mode = "Named" /\ c.walker_name = None)
    [] m = "hyprlock" ->
         c.hyprlock_mode = "None" \/ (c.hyprlock_mode = "Named" /\ c.hyprlock_name = None)
    [] m = "starship" -> c.starship_mode.m = "None"

(* C16: an applier run with mode None, or Named without a name, leaves the *)
(* subsystem's live config as it was: the entries of the waybar directory  *)
(* and the manifest, walker's config.toml and theme-manager-auto, the host *)
(* hyprlock.conf and the current theme's hyprlock.conf, the starship       *)
(* config file.                                                            *)
C16_NoneLeavesConfigUntouched ==
  [][\A m \in Appliers :
       (ncmds' = ncmds + 1 /\ ctx'.cmd = m /\ ModeIsNone(ctx', m))
         => LiveConfig(fs', m) = LiveConfig(fs, m)]_vars

(* The hyprlock applier has run with mode None: it has made the            *)
(* omarchy-default alias and has left the user's host hyprlock.conf alone. *)
C16_Witness ==
  /\ ctx.cmd = "hyprlock"
  /\ ctx.hyprlock_mode = "None"
  /\ result = Ok("hyprlock")
  /\ HyprlockAlias \in DOMAIN fs
  /\ fs[HyprlockAlias] = LinkNode(OmarchyRoot \o <<"default", "hyprlock">>)
  /\ HyprlockMain \in DOMAIN fs
  /\ fs[HyprlockMain] = FileNode(<<"source = ~/.config/hypr/other.conf">>)


(* The errors cmd_set returns when an applier fails. *)
ApplierErrors ==
  {"waybar", "io", "starship theme not found", "starship theme file not found",
   "starship not found in PATH", "failed to apply starship preset nerd"}
Started(ran, cmd) == {i \in DOMAIN ran : ran[i].cmd = cmd}

(* C17: while cmd_set has not got past its appliers no reload-phase        *)
(* command has been started; when an applier has failed none has been      *)
(* started at all; and the restart collected from the waybar applier is    *)
(* started at most once, and only when one was collected.                  *)
C17_RestartsAfterAppliers ==
  /\ pc \in {"stage", "copy", "hook", "remove", "rename", "name", "waybar", "starship",
             "reload"}
       => ctx.ran = <<>>
  /\ (pc = "idle" /\ result.status = "err" /\ result.msg \in ApplierErrors)
       => ctx.ran = <<>>
  /\ Cardinality(Started(ctx.ran, "omarchy-restart-waybar")) <= 1
  /\ \A i \in DOMAIN ctx.ran : ctx.ran[i].how = "command" =>
       /\ ctx.waybar_restart = Some(ctx.ran[i].cmd)
       /\ \A j \in DOMAIN ctx.ran : ctx.ran[j].how = "command" => j = i

(* A cmd_set whose waybar applier collected a restart has finished: the    *)
(* restart was started once, after the wallpaper command.                  *)
C17_Witness ==
  /\ pc = "idle"
  /\ result = Ok("set")
  /\ ctx.waybar_restart = Some("omarchy-restart-waybar")
  /\ Cardinality(Started(ctx.ran, "omarchy-restart-waybar")) = 1
  /\ ctx.ran[3] = run_command("omarchy-restart-waybar")
  /\ Len(ctx.ran) = 12

(* reload_components was entered: the wallpaper command before it ran and  *)
(* succeeded.                                                              *)
ReloadEntered ==
  /\ pc \in {"idle", "hookscript"}
  /\ ctx.ran # <<>>
  /\ ctx.env["omarchy-theme-bg-next"] = "ok"

(* C18, as claimed: once the reload is entered, every generic reload       *)
(* signal that is installed is started, whether or not an earlier one      *)
(* failed.                                                                 *)
C18_SignalsIndependent ==
  ReloadEntered
    => \A i \in DOMAIN ReloadSignals :
         ctx.env[ReloadSignals[i]] # "missing" => Started(ctx.ran, ReloadSignals[i]) # {}

(* C19, as claimed: cmd_set never returns the error of a reload signal or  *)
(* theme setter that is installed and exits non-zero.                      *)
C19_SignalFailureSwallowed ==
  (pc = "idle" /\ result.status = "err")
    => \A c \in CommandNames \ {"omarchy-theme-bg-next"} : result.msg # c \o " exited"


(* C20: after a successful cmd_set the live current-theme path is itself a *)
(* directory, not a symlink or a file, whatever was there before, and the  *)
(* theme.name file next to it holds exactly the normalized theme name.     *)
C20_LiveIsRealDirectory ==
  (pc = "idle" /\ result = Ok("set"))
    => /\ LKind(fs, CurrentThemeLink) = "dir"
       /\ ThemeNameFile \in DOMAIN fs
       /\ \E n \in {normalize_theme_name(ctx.theme_name)} :
            fs[ThemeNameFile] = FileNode(IF NameChars[n] = <<>> THEN <<>> ELSE <<n>>)

(* cmd_set("Bravo") succeeded where the live path was a regular file.      *)
C20_Witness ==
  /\ pc = "idle"
  /\ result = Ok("set")
  /\ ctx.theme_name = "Bravo"
  /\ CurrentThemeLink \in DOMAIN fs0
  /\ fs0[CurrentThemeLink] = FileNode(<<"stray">>)
  /\ LKind(fs, CurrentThemeLink) = "dir"
  /\ fs[ThemeNameFile] = FileNode(<<"bravo">>)

(* The same where the live path was a symlink into the themes directory.   *)
C20_WitnessLink ==
  /\ pc = "idle"
  /\ result = Ok("set")
  /\ CurrentThemeLink \in DOMAIN fs0
  /\ fs0[CurrentThemeLink] = LinkNode(<<"themes", "bravo">>)
  /\ LKind(fs, CurrentThemeLink) = "dir"



(***************************************************************************)
(* SpecSource: standalone applier commands, one after another, from states *)
(* in which the live current-theme path is a snapshot directory or a       *)
(* symlink to the source theme, and the starship config is the user's file *)
(* or a symlink to a theme file.                                           *)
(***************************************************************************)
FullSource == Tree(ThemeRootDir \o <<"full">>, FullTheme)
SourceLiveStates ==
  { Tree(CurrentThemeLink, FullTheme),
    Tree(CurrentThemeLink, {<<<<>>, LinkNode(ThemeRootDir \o <<"full">>)>>}) }
SourceStarshipStates ==
  { UserStarship,
    Tree(StarshipConfig, {<<<<>>, LinkNode(Append(StarshipThemesDir, "night.toml"))>>}) }
(* A waybar bundle with a top-level file besides the two marker files, a   *)
(* subdirectory and a link to a directory.                                 *)
RichBundle ==
  {<<<<>>, DirNode>>,
   <<<<"config.jsonc">>, FileNode(<<"cr">>)>>,
   <<<<"style.css">>, FileNode(<<"yr">>)>>,
   <<<<"colors.css">>, FileNode(<<"kr">>)>>,
   <<<<"assets">>, DirNode>>,
   <<<<"scripts">>, LinkNode(<<"waybar", "themes", "shared", "scripts">>)>>}
SourceWaybarContexts ==
  { [NoCtx EXCEPT !.waybar_mode = m[1], !.waybar_name = m[2], !.waybar_apply_mode = a[1],
                  !.waybar_restart_cmd = a[2]] :
      m \in {<<"Auto", None>>, <<"Named", Some("rich")>>},
      a \in {<<"symlink", None>>, <<"copy", None>>, <<"exec", None>>,
             <<"exec", Some("waybar-helper")>>} }
SourceWalkerContexts ==
  { [NoCtx EXCEPT !.walker_mode = m[1], !.walker_name = m[2], !.walker_apply_mode = a] :
      m \in {<<"Auto", None>>, <<"Named", Some("neon")>>}, a \in {"symlink", "copy"} }
SourceHyprlockContexts ==
  { [NoCtx EXCEPT !.hyprlock_mode = m[1], !.hyprlock_name = m[2], !.hyprlock_apply_mode = a] :
      m \in {<<"Auto", None>>, <<"Named", Some("shared")>>,
             <<"Named", Some(OMARCHY_DEFAULT_THEME_NAME)>>},
      a \in {"symlink", "copy"} }
SourceStarshipContexts ==
  { [NoCtx EXCEPT !.starship_mode = m] :
      m \in {[m |-> "Named", v |-> "night"], [m |-> "Theme", v |-> ""]} }

InitSource ==
  /\ fs \in { CurrentDir @@ l @@ Sidecar("full") @@ s @@ h
                @@ FileAt(WalkerConfig, <<"# walker", ThemeLine("old")>>)
                @@ WithAliases(DefaultsFs({}, {}, FALSE), "absent")
                @@ NamedBundles @@ Tree(Append(WaybarThemesDir, "rich"), RichBundle)
                @@ FullSource @@ ThemesFs @@ BundlesFs @@ UserWaybar :
              l \in SourceLiveStates, s \in SourceStarshipStates,
              h \in {DirAt(HyprlockDir), FileAt(HyprlockMain, <<CURRENT_THEME_SOURCE_LINE>>)} }
  /\ InitCommon

NextSource ==
  \/ CmdWaybar(SourceWaybarContexts)
  \/ /\ pc = "idle"
     /\ ncmds < MaxCmds
     /\ \E c \in SourceWalkerContexts : apply_walker_only(c, TRUE)
  \/ /\ pc = "idle"
     /\ ncmds < MaxCmds
     /\ \E c \in SourceHyprlockContexts : apply_hyprlock_only(c, TRUE)
  \/ /\ pc = "idle"
     /\ ncmds < MaxCmds
     /\ \E c \in SourceStarshipContexts : apply_starship_only(c)

SpecSource == InitSource /\ [][NextSource]_vars

(* The source themes under the theme root and the shared named bundles.    *)
SourceRoots ==
  { ThemeRootDir \o <<"full">>, ThemeRootDir \o <<"alpha">>, ThemeRootDir \o <<"bravo">>,
    <<"store", "bravo">>,
    Append(WaybarThemesDir, "shared"), Append(WaybarThemesDir, "alt"),
    Append(WaybarThemesDir, "rich"),
    Append(WalkerThemesDir, "neon"), Append(HyprlockThemesDir, "shared"),
    Append(StarshipThemesDir, "night.toml") }
SourceView(f) == SubFs(f, SourceRoots, {})

(* C21, as claimed: no apply operation creates, changes or deletes an      *)
(* entry inside a source theme or a shared named bundle, also when the     *)
(* live path is a symlink to the source theme or a live config file is a   *)
(* symlink into a bundle.                                                  *)
C21_SourcesReadOnly == [][SourceView(fs') = SourceView(fs)]_vars

(* The same for starts from a snapshot directory with the user's own       *)
(* starship file only.                                                     *)
C21_SnapshotSourcesReadOnly ==
  [][(/\ LKind(fs, CurrentThemeLink) = "dir"
      /\ LKind(fs, StarshipConfig) = "file") => SourceView(fs') = SourceView(fs)]_vars



(***************************************************************************)
(* SpecNext: cmd_next from each combination of live path and theme.name,   *)
(* with skip_apps set so that the swap is all cmd_set does.                *)
(***************************************************************************)
NextLiveStates ==
  { CurrentDir @@ Tree(CurrentThemeLink, AlphaTree) @@ Sidecar("alpha"),
    CurrentDir @@ Tree(CurrentThemeLink, AlphaTree)
      @@ Tree(ThemeNameFile, {<<<<>>, FileNode(<<>>)>>}),
    CurrentDir @@ Tree(CurrentThemeLink, {<<<<>>, LinkNode(<<"themes", "bravo">>)>>}),
    CurrentDir @@ Tree(CurrentThemeLink, {<<<<>>, LinkNode(<<"themes", "bravo">>)>>})
      @@ Sidecar("bravo"),
    CurrentDir @@ Tree(CurrentThemeLink, {<<<<>>, LinkNode(<<"themes", "bravo">>)>>})
      @@ Sidecar("alpha"),
    CurrentDir @@ Tree(CurrentThemeLink, {<<<<>>, LinkNode(<<"themes", "alpha">>)>>})
      @@ Sidecar("charlie") }

InitNext ==
  /\ fs \in {ThemesFs @@ BundlesFs @@ UserStarship @@ UserWaybar @@ l : l \in NextLiveStates}
  /\ InitCommon

NextNext ==
  \/ CmdNext({[NoCtx EXCEPT !.skip_apps = TRUE]})
  \/ StagePrepare
  \/ CopyEntry
  \/ CopyFail
  \/ TemplateHook
  \/ RemoveCurrent
  \/ RenameStaging
  \/ WriteThemeName
  \/ HookScript({"ok"})

SpecNext == InitNext /\ [][NextNext]_vars

(* The name theme.name gave when the command started, "" when the file was *)
(* missing or empty.                                                       *)
SidecarName(view) ==
  IF ThemeNameFile \in DOMAIN view /\ view[ThemeNameFile].k = "file"
  THEN TrimmedName(view[ThemeNameFile].c) ELSE ""

(* C22, as claimed: whenever theme.name exists and is non-empty, cmd_next  *)
(* goes on from the name it holds, whatever the live path is.              *)
C22_SidecarFirst ==
  (ctx.cmd = "next" /\ ThemeEntries(fs) # {} /\ SidecarName(fs0) # "")
    => \E S \in {ThemeEntries(fs)} :
         ctx.theme_name = IF SidecarName(fs0) \in S
                          THEN Ranked(S, (Rank(S, SidecarName(fs0)) % Cardinality(S)) + 1)
                          ELSE Ranked(S, 1)

(* The same where the live path is not a symlink, or is one whose target   *)
(* has the name theme.name holds.                                          *)
C22_SidecarFirstUnlessLinkDiffers ==
  (/\ ctx.cmd = "next" /\ ThemeEntries(fs) # {} /\ SidecarName(fs0) # ""
   /\ \/ fs0[CurrentThemeLink].k # "link"
      \/ Last(fs0[CurrentThemeLink].t) = SidecarName(fs0))
    => \E S \in {ThemeEntries(fs)} :
         ctx.theme_name = IF SidecarName(fs0) \in S
                          THEN Ranked(S, (Rank(S, SidecarName(fs0)) % Cardinality(S)) + 1)
                          ELSE Ranked(S, 1)


(* The names of the top-level entries of a directory. *)
EntryNames(f, dir) == {Last(q) : q \in Children(f, RealPath(f, dir))}
MarkerFiles == {"config.jsonc", "style.css"}
LinkedTo(f, l, target) == LKind(f, l) = "link" /\ PointsTo(f, LRealPath(f, l), target)

(* The last command was a waybar apply in symlink mode that applied the    *)
(* bundle b and returned success.                                          *)
WaybarLinked(b) ==
  /\ ctx.cmd = "waybar"
  /\ result = Ok("waybar")
  /\ ~ctx.skip_apps
  /\ ctx.waybar_apply_mode = "symlink"
  /\ WaybarBundle(ctx, current_theme_dir(fs, CurrentThemeLink)) = Some(b)
  /\ WaybarBundleValid(fs, b)

(* The manifest holds exactly the names in S (no manifest when S is empty). *)
ManifestLists(f, S) ==
  IF S = {} THEN ~lexists(f, Append(WaybarDir, WAYBAR_LINKS_FILE))
  ELSE /\ is_file(f, Append(WaybarDir, WAYBAR_LINKS_FILE))
       /\ Lines(read_to_string(f, Append(WaybarDir, WAYBAR_LINKS_FILE))) = S

(* C23, as claimed: after a successful waybar apply in symlink mode every  *)
(* top-level entry of the bundle other than the two marker files has a     *)
(* symlink of its name in the live waybar directory pointing at it, the    *)
(* marker files are linked one by one, and the manifest lists the linked   *)
(* names.                                                                  *)
C23_EveryEntryLinked ==
  \A b \in {Append(current_theme_dir(fs, CurrentThemeLink), "waybar-theme"),
            Append(WaybarThemesDir, "rich")} :
    WaybarLinked(b) =>
      /\ \A n \in EntryNames(fs, b) : LinkedTo(fs, Append(WaybarDir, n), Append(b, n))
      /\ ManifestLists(fs, EntryNames(fs, b) \ MarkerFiles)

(* The same for the entries that are directories or links to directories,  *)
(* and the marker files.                                                   *)
C23_EverySubdirLinked ==
  \A b \in {Append(current_theme_dir(fs, CurrentThemeLink), "waybar-theme"),
            Append(WaybarThemesDir, "rich")} :
    WaybarLinked(b) =>
      /\ \A n \in BundleSubdirs(fs, b) \cup MarkerFiles :
           LinkedTo(fs, Append(WaybarDir, n), Append(b, n))
      /\ ManifestLists(fs, BundleSubdirs(fs, b))
      /\ ~lexists(fs, Append(WaybarDir, "colors.css"))


(* The text that marks a style file as importing by a relative path. *)
RelativeImportMarker == "@import \"../"
ExecApply(c, f) ==
  /\ c.cmd = "waybar"
  /\ ~c.skip_apps
  /\ c.waybar_apply_mode = "exec"
  /\ current_theme_dir(f, CurrentThemeLink) # NoPath
  /\ \E b \in {WaybarBundle(c, current_theme_dir(f, CurrentThemeLink))} :
       /\ b # None
       /\ WaybarBundleValid(f, b[1])

(* C24, as claimed: a waybar apply in exec mode with a restart helper      *)
(* configured and a style file without the relative-import marker writes   *)
(* nothing in the live waybar directory and returns the helper as the      *)
(* restart to run.                                                         *)
C24_ExecDelegates ==
  [][(/\ ncmds' = ncmds + 1
      /\ ExecApply(ctx', fs)
      /\ ctx'.waybar_restart_cmd # None
      /\ \E b \in {WaybarBundle(ctx', current_theme_dir(fs, CurrentThemeLink))[1]} :
           RelativeImportMarker \notin Lines(read_to_string(fs, Append(b, "style.css"))))
       => /\ LiveConfig(fs', "waybar") = LiveConfig(fs, "waybar")
          /\ ctx'.waybar_restart = ctx'.waybar_restart_cmd]_vars

(* Every waybar apply in exec mode, helper or not, does what the same      *)
(* apply in symlink mode does.                                             *)
C24_ExecIsSymlink ==
  [][(ncmds' = ncmds + 1 /\ ExecApply(ctx', fs))
       => \E r \in {prepare_waybar(fs, [ctx' EXCEPT !.waybar_apply_mode = "symlink"],
                                   current_theme_dir(fs, CurrentThemeLink), now)} :
            /\ fs' = r.fs
            /\ ctx'.waybar_restart = r.restart]_vars



(***************************************************************************)
(* SpecHook: cmd_set with and without a hook script in place, the hook     *)
(* succeeding, failing or not starting.                                    *)
(***************************************************************************)
HookStates ==
  { EmptyFs,
    FileAt(HookPath, <<"#!/bin/sh">>),
    DirAt(HookPath) }
HookContexts ==
  { [NoCtx EXCEPT !.skip_apps = TRUE],
    NoCtx,
    [NoCtx EXCEPT !.skip_hook = TRUE],
    [NoCtx EXCEPT !.waybar_mode = "Auto"],
    [NoCtx EXCEPT !.starship_mode = [m |-> "Named", v |-> "nowhere"]] }
HookEnvs ==
  { AllOk,
    [AllOk EXCEPT !["makoctl"] = "fail"],
    [AllOk EXCEPT !["omarchy-theme-bg-next"] = "missing"],
    [AllOk EXCEPT !["omarchy-theme-set-obsidian"] = "fail"] }

InitHook ==
  /\ fs \in {ThemesFs @@ BundlesFs @@ UserStarship @@ UserWaybar @@ l @@ h :
               l \in {EmptyFs, CurrentDir @@ Tree(CurrentThemeLink, OldTree) @@ Sidecar("ghost")},
               h \in HookStates}
  /\ InitCommon

NextHook ==
  \/ CmdSet({"alpha", "Bravo"}, HookContexts)
  \/ StagePrepare
  \/ CopyEntry
  \/ CopyFail
  \/ TemplateHook
  \/ RemoveCurrent
  \/ RenameStaging
  \/ WriteThemeName
  \/ ApplyWaybar
  \/ ApplyStarship
  \/ Reload(HookEnvs)
  \/ HookScript(HookOutcomes)

SpecHook == InitHook /\ [][NextHook]_vars

(* Everything cmd_set does before the hook has been done without error:    *)
(* the snapshot is live under the normalized name and, unless skip_apps,   *)
(* the wallpaper command, the reloads and the theme setters all ran.       *)
AllDoneBeforeHook ==
  /\ LKind(fs, CurrentThemeLink) = "dir"
  /\ fs[ThemeNameFile] = FileNode(<<normalize_theme_name(ctx.theme_name)>>)
  /\ ~ctx.skip_apps =>
       \E r \in {RunSteps(<<run_required("omarchy-theme-bg-next")>>
                          \o reload_components(ctx.waybar_restart)
                          \o apply_theme_setters, ctx.env, <<>>)} :
         r.ok /\ r.ran = ctx.ran

TwiceContexts ==
  { [NoCtx EXCEPT !.skip_apps = TRUE],
    [NoCtx EXCEPT !.waybar_mode = "Auto"],
    [NoCtx EXCEPT !.waybar_mode = "Auto", !.waybar_apply_mode = "copy"],
    [NoCtx EXCEPT !.waybar_mode = "Named", !.waybar_name = Some("shared"),
                  !.waybar_apply_mode = "copy"],
    [NoCtx EXCEPT !.waybar_mode = "Named", !.waybar_name = Some("shared")],
    [NoCtx EXCEPT !.starship_mode = [m |-> "Theme", v |-> ""]] }

InitTwice ==
  /\ fs \in {ThemesFs @@ BundlesFs @@ UserStarship @@ w : w \in {EmptyFs, UserWaybar}}
  /\ InitCommon

NextTwice ==
  \/ CmdSetAfter({"alpha"}, TwiceContexts)
  \/ StagePrepare
  \/ CopyEntry
  \/ TemplateHook
  \/ RemoveCurrent
  \/ RenameStaging
  \/ WriteThemeName
  \/ ApplyWaybar
  \/ ApplyStarship
  \/ Reload({AllOk})
  \/ HookScript({"ok"})

SpecTwice == InitTwice /\ [][NextTwice]_vars

(* What a cmd_set was asked for: the theme and the per-subsystem modes and *)
(* apply modes (and what the template command did).                        *)
Selection(c) ==
  [theme_name |-> c.theme_name, skip_apps |-> c.skip_apps, hook |-> c.hook,
   waybar_mode |-> c.waybar_mode, waybar_name |-> c.waybar_name,
   waybar_apply_mode |-> c.waybar_apply_mode, starship_mode |-> c.starship_mode]

(* A successful cmd_set has just ended that followed a successful cmd_set  *)
(* with the same selection.                                                *)
SetRepeated ==
  /\ pc = "idle"
  /\ result = Ok("set")
  /\ sel.cmd = "set"
  /\ sel.result = Ok("set")
  /\ Selection(sel.ctx) = Selection(ctx)

(* C26, as claimed: a cmd_set repeated with the same theme, modes and      *)
(* apply modes leaves the file system as the first one left it.            *)
C26_SetIdempotent == SetRepeated => fs = sel.fs

(* The same for waybar apply mode symlink. *)
C26_SetIdempotentSymlink ==
  (SetRepeated /\ ctx.waybar_apply_mode = "symlink") => fs = sel.fs


(* The default a subsystem's ensure_omarchy_default_theme_link resolves,   *)
(* and the alias it keeps.                                                 *)
ModuleDefault(f, m) ==
  CASE m = "walker" ->
         IF resolve_walker_default(f) = None THEN None
         ELSE Some(resolve_walker_default(f)[1].path)
    [] m = "hyprlock" -> omarchy_default_hyprlock_theme_dir(f)
    [] m = "starship" -> omarchy_default_starship_theme_file(f)
AliasOf(m) ==
  CASE m = "walker" -> WalkerAlias
    [] m = "hyprlock" -> HyprlockAlias
    [] m = "starship" -> StarshipAlias

(* What the claim asks of one subsystem's link step: an alias symlink that *)
(* does not point at the resolved default is re-pointed at it without an   *)
(* error, one that does is left as it is.                                  *)
AliasRepaired(f, g, m, outcome) ==
  (ModuleDefault(f, m) # None /\ LKind(f, AliasOf(m)) = "link")
    => /\ outcome # "Err"
       /\ LKind(g, AliasOf(m)) = "link"
       /\ PointsTo(g, AliasOf(m), ModuleDefault(f, m)[1])
       /\ PointsTo(f, AliasOf(m), ModuleDefault(f, m)[1]) => g = f

(* C27, as claimed: for walker, hyprlock and starship alike the link step  *)
(* of the apply repairs a wrong or dangling omarchy-default alias and      *)
(* leaves a correct one alone.                                             *)
C27_AliasRepaired ==
  [][(sel'.cmd = "ensure_default" /\ ncmds' = ncmds + 1)
       => AliasRepaired(fs, fs', sel'.module, sel'.outcome)]_vars

(* The same for walker alone. *)
C27_WalkerAliasRepaired ==
  [][(sel'.cmd = "ensure_default" /\ ncmds' = ncmds + 1 /\ sel'.module = "walker")
       => AliasRepaired(fs, fs', "walker", sel'.outcome)]_vars

(***************************************************************************)
(* Walker applies over the user's own walker configuration: config.toml    *)
(* with keys that start with "theme", with no theme key, with two, empty   *)
(* or missing; an auto theme folder left by an earlier apply; and live     *)
(* themes whose walker-theme bundle is complete, lacks style.css, or has   *)
(* more than the two known files.                                          *)
(***************************************************************************)
WalkerConfigStates ==
  { DirAt(WalkerDir),
    FileAt(WalkerConfig, <<"theme_name = \"keep\"", "theme_variant = \"keep\"", ThemeLine("old")>>),
    FileAt(WalkerConfig, <<"# walker", "width = 1">>),
    FileAt(WalkerConfig, <<ThemeLine("old"), "width = 1", ThemeLine("neon")>>),
    FileAt(WalkerConfig, <<>>) }

WalkerAutoStates ==
  { EmptyFs,
    FileAt(Append(WalkerAutoDir, "style.css"), <<"stale">>)
      @@ FileAt(Append(WalkerAutoDir, "stale.css"), <<"stale">>),
    (WalkerAutoDir :> LinkNode(<<"walker", "old-auto">>))
      @@ FileAt(<<"walker", "old-auto", "stale.css">>, <<"stale">>)
      @@ DirAt(WalkerThemesDir) }

RichWalkerTheme ==
  {<<<<>>, DirNode>>,
   <<<<"walker-theme">>, DirNode>>,
   <<<<"walker-theme", "style.css">>, FileNode(<<"wr">>)>>,
   <<<<"walker-theme", "animations.conf">>, FileNode(<<"ar">>)>>,
   <<<<"walker-theme", "icons">>, DirNode>>,
   <<<<"walker-theme", "icons", "a.svg">>, FileNode(<<"svg">>)>>}

WalkerDefaults ==
  { WithAliases(DefaultsFs(l, {}, FALSE), kind) :
      l \in {{}, {"base"}}, kind \in {"absent", "dangling"} }

InitWalker ==
  /\ fs \in { CurrentDir @@ Tree(CurrentThemeLink, t) @@ Sidecar("alpha") @@ w @@ a @@ d
                @@ NamedBundles :
              t \in {FullTheme, BareTheme, RichWalkerTheme}, w \in WalkerConfigStates,
              a \in WalkerAutoStates, d \in WalkerDefaults }
  /\ InitCommon

NextWalker == CmdWalker(WalkerContexts)

SpecWalker == InitWalker /\ [][NextWalker]_vars

(* The lines of config.toml that are not the theme key. *)
OtherLines(lines) == SelectSeq(lines, LAMBDA l : ~is_theme_assignment(l))
WalkerThemesView(f) == SubFs(f, {WalkerThemesDir}, {})
WalkerThemesViewButAlias(f) == SubFs(f, {WalkerThemesDir}, {WalkerAlias})

NamedWalkerApply(c) ==
  /\ c.cmd = "walker"
  /\ ~c.skip_apps
  /\ c.walker_mode = "Named"
  /\ c.walker_name # None

(* What the claim says of config.toml after a Named apply of `name`. *)
OnlyThemeKeyChanged(f, g, name) ==
  /\ is_file(g, WalkerConfig)
  /\ \E i \in DOMAIN read_to_string(g, WalkerConfig) :
       read_to_string(g, WalkerConfig)[i] = ThemeLine(name)
  /\ \A i \in DOMAIN read_to_string(g, WalkerConfig) :
       is_theme_assignment(read_to_string(g, WalkerConfig)[i])
         => read_to_string(g, WalkerConfig)[i] = ThemeLine(name)
  /\ OtherLines(read_to_string(g, WalkerConfig)) = OtherLines(read_to_string(f, WalkerConfig))
  /\ Len(read_to_string(g, WalkerConfig)) =
       IF \E i \in DOMAIN read_to_string(f, WalkerConfig) :
            is_theme_assignment(read_to_string(f, WalkerConfig)[i])
       THEN Len(read_to_string(f, WalkerConfig))
       ELSE Len(read_to_string(f, WalkerConfig)) + 1

(* C28, as claimed: every walker apply in Named mode leaves config.toml    *)
(* with the line theme = "<name>" and all its other lines as they were,    *)
(* creates and removes nothing under the walker themes directory, and      *)
(* writes nothing at all when config.toml is missing.                      *)
C28_NamedOnlyThemeKey ==
  [][NamedWalkerApply(ctx')
       => /\ WalkerThemesView(fs') = WalkerThemesView(fs)
          /\ IF is_file(fs, WalkerConfig)
             THEN OnlyThemeKeyChanged(fs, fs', ctx'.walker_name[1])
             ELSE fs' = fs]_vars

(* C28, amended: when the named theme folder holds style.css, a Named      *)
(* apply leaves config.toml with the line theme = "<name>" and all its     *)
(* other lines as they were, in order; when it does not, config.toml is    *)
(* left as it was.  Under the walker themes directory only the             *)
(* omarchy-default alias may be created or re-pointed, and outside it only *)
(* config.toml changes; a missing config.toml is not created.              *)
C28_NamedOnlyThemeKeyOfValidTheme ==
  [][NamedWalkerApply(ctx')
       => /\ WalkerThemesViewButAlias(fs') = WalkerThemesViewButAlias(fs)
          /\ \A q \in (DOMAIN fs \cup DOMAIN fs') \ {RealPath(fs, WalkerConfig), WalkerAlias} :
               q \in DOMAIN fs /\ q \in DOMAIN fs' /\ fs'[q] = fs[q]
          /\ is_file(fs', WalkerConfig) = is_file(fs, WalkerConfig)
          /\ IF /\ is_file(fs, WalkerConfig)
                /\ is_walker_theme_dir(fs, Append(WalkerThemesDir, ctx'.walker_name[1]))
             THEN OnlyThemeKeyChanged(fs, fs', ctx'.walker_name[1])
             ELSE SubFs(fs', {WalkerDir}, {WalkerAlias}) = SubFs(fs, {WalkerDir}, {WalkerAlias})]_vars

(* A Named apply of an existing theme has rewritten a config.toml that     *)
(* holds theme_name and theme_variant next to the theme key.               *)
C28_Witness ==
  /\ NamedWalkerApply(ctx)
  /\ result = Ok("walker")
  /\ is_file(fs, WalkerConfig)
  /\ read_to_string(fs, WalkerConfig) =
       <<"theme_name = \"keep\"", "theme_variant = \"keep\"", ThemeLine("neon")>>

(* The alias was created under the walker themes directory by a Named      *)
(* apply.                                                                  *)
C28_WitnessAlias ==
  /\ NamedWalkerApply(ctx)
  /\ LKind(fs, WalkerAlias) = "link"
  /\ fs[WalkerAlias].t # <<"gone">>

AutoWalkerApply(c) ==
  /\ c.cmd = "walker"
  /\ ~c.skip_apps
  /\ c.walker_mode = "Auto"

(* The walker bundle of the live theme. *)
LiveWalkerBundle(f) == Append(current_theme_dir(f, CurrentThemeLink), "walker-theme")

EntryNamesOf(f, dir) == {Last(q) : q \in Children(f, RealPath(f, dir))}

(* themes/theme-manager-auto is a real folder with one entry per regular   *)
(* file of the bundle and nothing else.                                    *)
AutoDirMirrors(f, g, bundle) ==
  /\ LKind(g, WalkerAutoDir) = "dir"
  /\ EntryNamesOf(g, WalkerAutoDir) = FileNames(f, bundle)

(* Each entry is a copy of, or a link to, the bundle's file of that name. *)
AutoEntriesAre(f, g, bundle, mode) ==
  \A n \in FileNames(f, bundle) :
    IF mode = "copy"
    THEN /\ LKind(g, Append(WalkerAutoDir, n)) = "file"
         /\ read_to_string(g, Append(WalkerAutoDir, n)) = read_to_string(f, Append(bundle, n))
    ELSE /\ LKind(g, Append(WalkerAutoDir, n)) = "link"
         /\ PointsTo(g, Append(WalkerAutoDir, n), Append(bundle, n))

SelectsTheme(g, name) ==
  /\ is_file(g, WalkerConfig)
  /\ \E i \in DOMAIN read_to_string(g, WalkerConfig) :
       read_to_string(g, WalkerConfig)[i] = ThemeLine(name)
  /\ \A i \in DOMAIN read_to_string(g, WalkerConfig) :
       is_theme_assignment(read_to_string(g, WalkerConfig)[i])
         => read_to_string(g, WalkerConfig)[i] = ThemeLine(name)

(* C29, as claimed: after every successful walker apply in Auto mode,      *)
(* themes/theme-manager-auto holds exactly one entry per top-level regular *)
(* file of the live theme's walker-theme bundle, and config.toml selects   *)
(* theme-manager-auto.                                                     *)
C29_AutoDirExact ==
  [][(AutoWalkerApply(ctx') /\ result'.status = "ok")
       => /\ AutoDirMirrors(fs, fs', LiveWalkerBundle(fs))
          /\ SelectsTheme(fs', AUTO_THEME_NAME)]_vars

(* C29, amended: after a successful Auto apply whose bundle holds          *)
(* style.css, themes/theme-manager-auto is a real folder that holds        *)
(* exactly one entry (a copy, or a link in symlink mode) per top-level     *)
(* regular file of the bundle, and config.toml, when it exists, selects    *)
(* theme-manager-auto; an apply whose bundle lacks style.css leaves the    *)
(* folder and config.toml as they were.                                    *)
C29_AutoDirExactOfValidBundle ==
  [][(AutoWalkerApply(ctx') /\ result'.status = "ok")
       => IF is_walker_theme_dir(fs, LiveWalkerBundle(fs))
          THEN /\ AutoDirMirrors(fs, fs', LiveWalkerBundle(fs))
               /\ AutoEntriesAre(fs, fs', LiveWalkerBundle(fs), ctx'.walker_apply_mode)
               /\ is_file(fs', WalkerConfig) = is_file(fs, WalkerConfig)
               /\ is_file(fs, WalkerConfig) => SelectsTheme(fs', AUTO_THEME_NAME)
          ELSE SubFs(fs', {WalkerDir}, {WalkerAlias}) = SubFs(fs, {WalkerDir}, {WalkerAlias})]_vars

(* An Auto apply has replaced an auto folder left by an earlier apply (a   *)
(* link to a folder with a stale file) with the entries of the live        *)
(* theme's bundle.                                                         *)
C29_Witness ==
  /\ AutoWalkerApply(ctx)
  /\ result = Ok("walker")
  /\ EntryNamesOf(fs, WalkerAutoDir) = {"style.css", "animations.conf"}
  /\ is_file(fs, <<"walker", "old-auto", "stale.css">>)
  /\ SelectsTheme(fs, AUTO_THEME_NAME)

(***************************************************************************)
(* Hyprlock applies over the user's own host hyprlock.conf: a custom file  *)
(* (text, or bytes that are not UTF-8), a managed one, an empty one, none. *)
(***************************************************************************)
HostHyprlockStates ==
  { DirAt(HyprlockDir),
    FileAt(HyprlockMain, <<>>),
    FileAt(HyprlockMain, <<CURRENT_THEME_SOURCE_LINE, "general {">>),
    FileAt(HyprlockMain, <<"source = ~/.config/hypr/other.conf">>),
    FileAt(HyprlockMain, <<InvalidUtf8Line, "source = ~/.config/hypr/other.conf">>) }

InitHyprlock ==
  /\ fs \in { CurrentDir @@ Tree(CurrentThemeLink, t) @@ Sidecar("alpha") @@ h @@ d
                @@ NamedBundles @@ ThemesFs :
              t \in {FullTheme, BareTheme}, h \in HostHyprlockStates, d \in ApplyDefaults }
  /\ InitCommon

NextHyprlock == CmdHyprlock(HyprlockContexts)

SpecHyprlock == InitHyprlock /\ [][NextHyprlock]_vars

(* The host hyprlock.conf is a non-empty file without the current-theme    *)
(* source path.                                                            *)
CustomHostConfig(f) ==
  /\ LKind(f, HyprlockMain) = "file"
  /\ f[HyprlockMain].c # <<>>
  /\ ~SourcesCurrentTheme(f[HyprlockMain].c)

HyprlockApplied(c) == c.cmd = "hyprlock" /\ ~c.skip_apps

(* C30, as claimed: a hyprlock apply leaves a non-empty host hyprlock.conf *)
(* without the current-theme source path exactly as it was.                *)
C30_CustomHostPreserved ==
  [][(HyprlockApplied(ctx') /\ CustomHostConfig(fs))
       => (HyprlockMain \in DOMAIN fs' /\ fs'[HyprlockMain] = fs[HyprlockMain])]_vars

(* C30 for a host file that is UTF-8 text: it is left as it was, and the   *)
(* apply fails only where the alias step, the restart helper or the        *)
(* omarchy-default apply (whose source is the live file it replaces) does. *)
C30_CustomTextHostPreserved ==
  [][(HyprlockApplied(ctx') /\ CustomHostConfig(fs) /\ IsUtf8(fs[HyprlockMain].c))
       => /\ HyprlockMain \in DOMAIN fs' /\ fs'[HyprlockMain] = fs[HyprlockMain]
          /\ \/ result'.status = "ok"
             \/ result'.msg = "omarchy-restart-hyprlock"
             \/ ~hyprlock_ensure_omarchy_default_theme_link(fs).ok
             \/ ctx'.hyprlock_name = Some(OMARCHY_DEFAULT_THEME_NAME)]_vars

(* A bundle was applied next to a custom host file. *)
C30_WitnessText ==
  /\ HyprlockApplied(ctx)
  /\ result = Ok("hyprlock")
  /\ CustomHostConfig(fs)
  /\ ctx.hyprlock_mode = "Auto"
  /\ LKind(fs, CurrentHyprlockConf) = "link"

(***************************************************************************)
(* git_ops.rs cmd_remove.  The command holds its argument in sel while the *)
(* cmd_next it calls runs step by step; RemoveEntry is the rest of         *)
(* cmd_remove after cmd_next has returned.                                 *)
(***************************************************************************)
(* fs::read_link(current_theme_link), file_name() of the target. *)
is_current_theme(f, theme_name) ==
  IF ~is_symlink(f, CurrentThemeLink) THEN FALSE
  ELSE \E t \in {f[LRealPath(f, CurrentThemeLink)].t} : t # <<>> /\ Last(t) = theme_name

RemovePending == sel.cmd = "remove" /\ sel.phase = "next"
RemoveSel(theme_name, f, current, phase) ==
  [cmd |-> "remove", theme |-> theme_name, fs |-> f, current |-> current, phase |-> phase]

cmd_remove(theme, c) ==
  \E theme_name \in {normalize_theme_name(theme)} :
  \E current \in {is_current_theme(fs, theme_name)} :
    IF ~exists(fs, Join(ThemeRootDir, theme_name)) /\ ~is_symlink(fs, Join(ThemeRootDir, theme_name))
    THEN /\ result' = Err("remove", "theme not found")
         /\ sel' = RemoveSel(theme_name, fs, FALSE, "done")
         /\ ncmds' = ncmds + 1
         /\ fs0' = LiveView(fs)
         /\ ctx' = [c EXCEPT !.cmd = "remove"]
         /\ UNCHANGED <<fs, pc, now, applied>>
    ELSE IF current /\ Len(sorted_theme_entries(fs, ThemeRootDir)[1]) <= 1
    THEN /\ result' = Err("remove", "cannot remove the only theme")
         /\ sel' = RemoveSel(theme_name, fs, TRUE, "done")
         /\ ncmds' = ncmds + 1
         /\ fs0' = LiveView(fs)
         /\ ctx' = [c EXCEPT !.cmd = "remove"]
         /\ UNCHANGED <<fs, pc, now, applied>>
    ELSE IF current
    THEN /\ Begin("next", next_theme(sorted_theme_entries(fs, ThemeRootDir)[1],
                                     current_theme_name(fs, CurrentThemeLink)), c)
         /\ sel' = RemoveSel(theme_name, fs, TRUE, IF pc' = "idle" THEN "done" ELSE "next")
    ELSE /\ fs' = remove_path(fs, Join(ThemeRootDir, theme_name))
         /\ result' = Ok("remove")
         /\ sel' = RemoveSel(theme_name, fs, FALSE, "done")
         /\ ncmds' = ncmds + 1
         /\ fs0' = LiveView(fs)
         /\ ctx' = [c EXCEPT !.cmd = "remove"]
         /\ UNCHANGED <<pc, now, applied>>

CmdRemove(themes, ctxs) ==
  /\ pc = "idle"
  /\ ncmds < MaxCmds
  /\ ~RemovePending
  /\ \E theme \in themes, c \in ctxs : cmd_remove(theme, c)

(* cmd_next has returned: `?` hands its error on, otherwise the entry is   *)
(* removed.                                                                *)
RemoveEntry ==
  /\ pc = "idle"
  /\ RemovePending
  /\ sel' = [sel EXCEPT !.phase = "done"]
  /\ IF result.status = "ok"
     THEN /\ fs' = remove_path(fs, Join(ThemeRootDir, sel.theme))
          /\ result' = Ok("remove")
     ELSE /\ fs' = fs
          /\ result' = Err("remove", result.msg)
  /\ UNCHANGED <<pc, ctx, now, ncmds, fs0, applied>>

(* cmd_set between removes, never while a remove waits for its cmd_next. *)
CmdSetIdle(themes, ctxs) ==
  /\ ~RemovePending
  /\ CmdSet(themes, ctxs)

OnlyAlphaFs == Tree(<<"themes">>, {<<<<>>, DirNode>>}) @@ Tree(<<"themes", "alpha">>, AlphaTree)
RemoveLiveStates ==
  { EmptyFs,
    CurrentDir @@ Tree(CurrentThemeLink, {<<<<>>, LinkNode(<<"themes", "alpha">>)>>}),
    CurrentDir @@ Tree(CurrentThemeLink, {<<<<>>, LinkNode(<<"themes", "bravo">>)>>})
      @@ Sidecar("bravo"),
    CurrentDir @@ Tree(CurrentThemeLink, AlphaTree) @@ Sidecar("alpha") }
RemoveContexts == {[NoCtx EXCEPT !.skip_apps = TRUE]}
RemoveThemes == {"alpha", "Bravo", "ghost"}

InitRemove ==
  /\ fs \in {t @@ l : t \in {ThemesFs, OnlyAlphaFs}, l \in RemoveLiveStates}
  /\ InitCommon

NextRemove ==
  \/ CmdRemove(RemoveThemes, RemoveContexts)
  \/ RemoveEntry
  \/ CmdSetIdle({"alpha", "bravo"}, RemoveContexts)
  \/ StagePrepare
  \/ CopyEntry
  \/ CopyFail
  \/ TemplateHook
  \/ RemoveCurrent
  \/ RenameStaging
  \/ WriteThemeName
  \/ HookScript({"ok"})

SpecRemove == InitRemove /\ [][NextRemove]_vars

(* cmd_remove has started on the theme that is active. *)
RemoveOfActiveStarts ==
  /\ sel'.cmd = "remove"
  /\ ctx'.cmd \in {"remove", "next"}
  /\ ncmds' = ncmds + 1
  /\ ~RemovePending
  /\ current_theme_name(fs, CurrentThemeLink) = Some(sel'.theme)
  /\ lexists(fs, Join(ThemeRootDir, sel'.theme))

(* C31, as claimed: cmd_remove of the active theme, however it became      *)
(* active, deletes nothing before cmd_next has run, and with a single      *)
(* theme fails with "cannot remove the only theme" and deletes nothing.    *)
C31_RemoveSwitchesFirst ==
  [][RemoveOfActiveStarts
       => /\ fs' = fs
          /\ IF Cardinality(ThemeEntries(fs)) <= 1
             THEN result' = Err("remove", "cannot remove the only theme")
             ELSE sel'.current]_vars

(* C31 where the live path is a symlink to the theme entry: the entry is   *)
(* deleted only by RemoveEntry, after a cmd_next that succeeded, and the   *)
(* only theme is never deleted.                                            *)
C31_RemoveSwitchesFirstWhenLinked ==
  [][(RemoveOfActiveStarts /\ is_symlink(fs, CurrentThemeLink))
       => /\ fs' = fs
          /\ IF Cardinality(ThemeEntries(fs)) <= 1
             THEN result' = Err("remove", "cannot remove the only theme")
             ELSE sel'.current]_vars
  /\ [][(RemovePending /\ pc = "idle")
          => IF result.status = "ok"
             THEN /\ ~lexists(fs', Join(ThemeRootDir, sel.theme))
                  /\ current_theme_name(fs, CurrentThemeLink) # Some(sel.theme)
             ELSE fs' = fs /\ result'.status = "err"]_vars

(* The active theme was removed after cmd_next moved on to another one. *)
C31_WitnessLinked ==
  /\ sel.cmd = "remove"
  /\ sel.current
  /\ sel.phase = "done"
  /\ result = Ok("remove")
  /\ ~lexists(fs, Join(ThemeRootDir, sel.theme))
  /\ is_dir(fs, CurrentThemeLink)

(***************************************************************************)
(* config.rs ResolvedConfig::load: built-in defaults, then the user's      *)
(* config.toml, then the project-local .theme-manager.toml, then the       *)
(* environment.  A FileConfig is None (no file) or a record of its         *)
(* settings, each None when the file leaves it out; has_paths tells        *)
(* whether the file has a [paths] table at all.  Four settings stand for   *)
(* the four ways a setting is merged.                                      *)
(***************************************************************************)
HomeDir == "/home/u"
expand_path(path) ==
  IF path = "~" THEN HomeDir
  ELSE IF path = "~/wb" THEN HomeDir \o "/wb"
  ELSE path

ConfigDefaults ==
  [waybar_dir |-> HomeDir \o "/.config/waybar",
   waybar_themes_dir |-> HomeDir \o "/.config/waybar/themes",
   waybar_apply_mode |-> "symlink",
   quiet_default |-> FALSE]

apply_file_config(self, cfg) ==
  IF cfg = None THEN self
  ELSE Bind(cfg[1], LAMBDA c :
    Bind(IF c.has_paths /\ c.waybar_dir # None
         THEN expand_path(c.waybar_dir[1]) ELSE self.waybar_dir, LAMBDA dir :
      [waybar_dir |-> dir,
       waybar_themes_dir |->
         IF ~c.has_paths THEN self.waybar_themes_dir
         ELSE IF c.waybar_themes_dir # None THEN expand_path(c.waybar_themes_dir[1])
         ELSE dir \o "/themes",
       waybar_apply_mode |->
         IF c.waybar_apply_mode # None THEN c.waybar_apply_mode[1] ELSE self.waybar_apply_mode,
       quiet_default |->
         IF c.quiet_default # None THEN c.quiet_default[1] ELSE self.quiet_default]))

apply_env_overrides(self, e) ==
  [waybar_dir |-> IF e.WAYBAR_DIR # None THEN expand_path(e.WAYBAR_DIR[1]) ELSE self.waybar_dir,
   waybar_themes_dir |->
     IF e.WAYBAR_THEMES_DIR # None THEN expand_path(e.WAYBAR_THEMES_DIR[1])
     ELSE self.waybar_themes_dir,
   waybar_apply_mode |->
     IF e.WAYBAR_APPLY_MODE # None THEN e.WAYBAR_APPLY_MODE[1] ELSE self.waybar_apply_mode,
   quiet_default |->
     IF e.QUIET_MODE_DEFAULT # None /\ e.QUIET_MODE_DEFAULT[1] \in {"1", "true"}
     THEN TRUE ELSE self.quiet_default]

load(user_cfg, local_cfg, e) ==
  apply_env_overrides(apply_file_config(apply_file_config(ConfigDefaults, user_cfg), local_cfg), e)

(* The files and environments: each layer has its own values. *)
FileConfigs(tag) ==
  {None} \cup
  { Some([has_paths |-> p, waybar_dir |-> d, waybar_themes_dir |-> t,
          waybar_apply_mode |-> a, quiet_default |-> q]) :
      p \in BOOLEAN,
      d \in {None, Some(IF tag = "user" THEN "~/wb" ELSE "/wb/" \o tag)},
      t \in {None, Some("/themes/" \o tag)},
      a \in {None, Some(IF tag = "user" THEN "copy" ELSE "exec")},
      q \in {None, Some(TRUE), Some(FALSE)} }
WellFormed(cfg) ==
  cfg = None \/ cfg[1].has_paths \/ (cfg[1].waybar_dir = None /\ cfg[1].waybar_themes_dir = None)
Environments ==
  [WAYBAR_DIR : {None, Some("/wb/env")},
   WAYBAR_THEMES_DIR : {None, Some("/themes/env")},
   WAYBAR_APPLY_MODE : {None, Some("symlink")},
   QUIET_MODE_DEFAULT : {None, Some("1"), Some("0")}]

InitConfig ==
  /\ fs = EmptyFs
  /\ pc = "idle"
  /\ ctx = NoCtx
  /\ result = NoResult
  /\ now = 0
  /\ ncmds = 0
  /\ fs0 = LiveView(fs)
  /\ applied = NoApplied
  /\ sel \in { [cmd |-> "config", user |-> u, local |-> l, env |-> e] :
                 u \in {c \in FileConfigs("user") : WellFormed(c)},
                 l \in {c \in FileConfigs("local") : WellFormed(c)},
                 e \in Environments }

LoadConfig ==
  /\ pc = "idle"
  /\ ncmds = 0
  /\ ncmds' = 1
  /\ result' = [cmd |-> "config", status |-> "ok", msg |-> "",
                config |-> load(sel.user, sel.local, sel.env)]
  /\ UNCHANGED <<fs, pc, ctx, now, fs0, sel, applied>>

NextConfig == LoadConfig

SpecConfig == InitConfig /\ [][NextConfig]_vars

(* What each layer sets, as the value the setting then has. *)
FileSets(cfg, key) ==
  IF cfg = None THEN None
  ELSE CASE key = "waybar_dir" ->
              IF cfg[1].waybar_dir = None THEN None ELSE Some(expand_path(cfg[1].waybar_dir[1]))
         [] key = "waybar_themes_dir" ->
              IF cfg[1].waybar_themes_dir = None THEN None
              ELSE Some(expand_path(cfg[1].waybar_themes_dir[1]))
         [] key = "waybar_apply_mode" -> cfg[1].waybar_apply_mode
         [] key = "quiet_default" -> cfg[1].quiet_default
EnvSets(e, key) ==
  CASE key = "waybar_dir" -> IF e.WAYBAR_DIR = None THEN None ELSE Some(expand_path(e.WAYBAR_DIR[1]))
    [] key = "waybar_themes_dir" ->
         IF e.WAYBAR_THEMES_DIR = None THEN None ELSE Some(expand_path(e.WAYBAR_THEMES_DIR[1]))
    [] key = "waybar_apply_mode" -> e.WAYBAR_APPLY_MODE
    [] key = "quiet_default" ->
         IF e.QUIET_MODE_DEFAULT = None THEN None ELSE Some(e.QUIET_MODE_DEFAULT[1] \in {"1", "true"})

HighestLayer(s, key) ==
  IF EnvSets(s.env, key) # None THEN EnvSets(s.env, key)[1]
  ELSE IF FileSets(s.local, key) # None THEN FileSets(s.local, key)[1]
  ELSE IF FileSets(s.user, key) # None THEN FileSets(s.user, key)[1]
  ELSE ConfigDefaults[key]

Loaded == result.cmd = "config"

(* C32, as claimed: every setting has the value of the highest layer that  *)
(* sets it: environment, then local file, then user file, then default.    *)
C32_HighestLayerWins ==
  Loaded => \A key \in DOMAIN ConfigDefaults : result.config[key] = HighestLayer(sel, key)

(* C32 for the settings merged by plain assignment (waybar_dir and         *)
(* waybar_apply_mode here): the highest layer that sets them wins.         *)
C32_HighestLayerWinsPlain ==
  Loaded => \A key \in {"waybar_dir", "waybar_apply_mode"} :
              result.config[key] = HighestLayer(sel, key)

(* The user file sets waybar_themes_dir, the local file has a [paths]      *)
(* table without it, and the loaded value is no longer the user's.         *)
C32_WitnessReset ==
  /\ Loaded
  /\ sel.user # None /\ sel.user[1].waybar_themes_dir # None
  /\ sel.local # None /\ sel.local[1].has_paths /\ sel.local[1].waybar_themes_dir = None
  /\ sel.env.WAYBAR_THEMES_DIR = None
  /\ result.config.waybar_themes_dir # "/themes/user"

(***************************************************************************)
(* Waybar applies over a backup area that earlier applies have filled: the *)
(* folder existing, and the folder and names stamped with a clock second   *)
(* in which applies have already run.                                      *)
(***************************************************************************)
StampedBackup(clock) ==
  Tree(Append(WaybarThemesDir, "existing-" \o ToString(clock)),
       {<<<<>>, DirNode>>,
        <<<<"config.jsonc">>, FileNode(<<"second">>)>>,
        <<<<"config.jsonc-" \o ToString(clock)>>, FileNode(<<"third">>)>>,
        <<<<"assets">>, DirNode>>,
        <<<<"assets-" \o ToString(clock)>>, DirNode>>,
        <<<<"assets-" \o ToString(clock), "third.png">>, FileNode(<<"t">>)>>})
BackupStates ==
  { UserWaybar, UserWaybar @@ OccupiedBackup,
    UserWaybar @@ OccupiedBackup @@ StampedBackup(0),
    UserWaybar @@ OccupiedBackup @@ StampedBackup(1) }
BackupContexts ==
  { [NoCtx EXCEPT !.waybar_mode = m[1], !.waybar_name = m[2], !.waybar_apply_mode = a] :
      m \in {<<"Auto", None>>, <<"Named", Some("shared")>>}, a \in {"symlink", "copy"} }

InitBackup ==
  /\ fs \in {ThemesFs @@ w @@ BundlesFs @@ CurrentDir @@ Tree(CurrentThemeLink, AlphaTree)
               @@ Sidecar("alpha") : w \in BackupStates}
  /\ InitCommon

NextBackup ==
  \/ CmdWaybar(BackupContexts)
  \/ Tick

SpecBackup == InitBackup /\ [][NextBackup]_vars

(* Everything below a backup folder (existing, existing-<second>). *)
AllBackupRoots ==
  {Append(WaybarThemesDir, "existing")} \cup
  {Append(WaybarThemesDir, "existing-" \o ToString(t)) : t \in 0..(MaxClock + 1)}
BackupArea(f) == SubFs(f, AllBackupRoots, {})
WaybarApplied == ctx'.cmd = "waybar" /\ ncmds' = ncmds + 1

(* No name stamped with this second is in the backup area yet. *)
FreshSecond(f, clock) ==
  \A q \in DOMAIN BackupArea(f) :
    \A i \in DOMAIN q :
      q[i] \notin {n \o "-" \o ToString(clock) :
                     n \in {"existing", "config.jsonc", "style.css", "assets", "scripts"}}

(* C33, as claimed: a waybar apply changes nothing that the backup area    *)
(* already holds, and does not fail over a name that is taken.             *)
C33_BackupsNeverLost ==
  [][WaybarApplied
       => /\ \A q \in DOMAIN BackupArea(fs) : q \in DOMAIN fs' /\ fs'[q] = fs[q]
          /\ result' # Err("waybar", "waybar")]_vars

(* C33 for an apply in a second whose stamp the backup area does not hold. *)
C33_BackupsKeptInFreshSecond ==
  [][(WaybarApplied /\ FreshSecond(fs, now))
       => /\ \A q \in DOMAIN BackupArea(fs) : q \in DOMAIN fs' /\ fs'[q] = fs[q]
          /\ result' # Err("waybar", "waybar")]_vars

(* An apply backed the user's files up next to older backups. *)
C33_WitnessFresh ==
  /\ result = Ok("waybar")
  /\ now = 0
  /\ <<"waybar", "themes", "existing-1", "config.jsonc-1">> \in DOMAIN fs
  /\ <<"waybar", "themes", "existing-0", "config.jsonc">> \in DOMAIN fs
  /\ fs[<<"waybar", "themes", "existing-0", "config.jsonc">>] = FileNode(<<"old">>)

(***************************************************************************)
(* Waybar applies over a waybar directory an earlier symlink apply of the  *)
(* shared bundle has left, also after the user put a folder of their own   *)
(* in the place of a linked one.                                           *)
(***************************************************************************)
LinkedShared ==
  Tree(WaybarDir,
       {<<<<"config.jsonc">>, LinkNode(<<"waybar", "themes", "shared", "config.jsonc">>)>>,
        <<<<"style.css">>, LinkNode(<<"waybar", "themes", "shared", "style.css">>)>>,
        <<<<"scripts">>, LinkNode(<<"waybar", "themes", "shared", "scripts">>)>>,
        <<<<WAYBAR_LINKS_FILE>>, FileNode(<<"assets", "scripts">>)>>})
ManifestStates ==
  { UserWaybar,
    LinkedShared @@ Tree(WaybarDir,
      {<<<<"assets">>, LinkNode(<<"waybar", "themes", "shared", "assets">>)>>}),
    LinkedShared @@ Tree(WaybarDir,
      {<<<<"assets">>, DirNode>>, <<<<"assets", "mine.png">>, FileNode(<<"m">>)>>}) }
ManifestContexts ==
  { [NoCtx EXCEPT !.waybar_mode = m[1], !.waybar_name = m[2], !.waybar_apply_mode = a] :
      m \in {<<"Auto", None>>, <<"Named", Some("shared")>>, <<"Named", Some("alt")>>,
             <<"Named", Some("hollow")>>},
      a \in {"symlink", "copy"} }

InitManifest ==
  /\ fs \in {ThemesFs @@ w @@ BundlesFs @@ NamedBundles @@ CurrentDir
               @@ Tree(CurrentThemeLink, t) @@ Sidecar("alpha") :
             w \in ManifestStates, t \in {AlphaTree, OldTree}}
  /\ InitCommon

NextManifest ==
  \/ CmdWaybar(ManifestContexts)
  \/ Tick

SpecManifest == InitManifest /\ [][NextManifest]_vars

ManifestNames(f) ==
  IF is_file(f, ManifestPath) THEN Lines(read_to_string(f, ManifestPath)) ELSE {}
TopLevelLinks(f) == {n \in WaybarEntries(f) : f[Append(WaybarDir, n)].k = "link"}

SOCKET_POLLS == 40

TRANSITION_RETRIES == 60

AwwwConfigs == [awww_transition : BOOLEAN, awww_auto_start : BOOLEAN]

AwwwEnvs ==
  [awww : BOOLEAN, daemon : BOOLEAN, running : BOOLEAN, socket_path : BOOLEAN,
   background : {"none", "file", "dir"}]

AwwwOutcomes == {"success", "socket_error", "other_error", "spawn_failed"}

AwwwSel(fn, n) == [cmd |-> "awww", fn |-> fn, n |-> n]

AwwwReturn(fn, n) ==
  /\ pc' = "idle"
  /\ result' = Ok(fn)
  /\ sel' = AwwwSel(fn, n)

\* ensure_awww_daemon up to the polling loop: every early return, the spawn
\* of awww-daemon, and the single 200 ms sleep when no socket path is known.
ensure_awww_daemon(config, e) ==
  IF \/ ~config.awww_transition \/ ~config.awww_auto_start
     \/ ~e.awww \/ ~e.daemon \/ e.running \/ ~e.socket_path
  THEN AwwwReturn("ensure_awww_daemon", 0)
  ELSE /\ pc' = "awww_poll"
       /\ sel' = AwwwSel("ensure_awww_daemon", 0)
       /\ UNCHANGED result

EnsureAwwwDaemon ==
  /\ pc = "idle"
  /\ ncmds < MaxCmds
  /\ ncmds' = ncmds + 1
  /\ \E config \in AwwwConfigs, e \in AwwwEnvs : ensure_awww_daemon(config, e)
  /\ UNCHANGED <<fs, ctx, now, fs0, applied>>

\* A poll whose count starts over before it reaches the cap: the loop of
\* ensure_awww_daemon without a bound.
PollSocketForever ==
  /\ pc = "awww_poll"
  /\ \E appeared \in BOOLEAN :
       IF appeared
       THEN AwwwReturn("ensure_awww_daemon", sel.n + 1)
       ELSE /\ sel' = AwwwSel("ensure_awww_daemon", (sel.n + 1) % SOCKET_POLLS)
            /\ UNCHANGED <<pc, result>>
  /\ UNCHANGED <<fs, ctx, now, ncmds, fs0, applied>>

\* One iteration of `for _ in 0..40`: look for the socket, return when it is
\* there, sleep otherwise; after the 40th look the function falls out of the
\* loop, warns and returns.
PollSocket ==
  /\ pc = "awww_poll"
  /\ IF sel.n < SOCKET_POLLS
     THEN \E appeared \in BOOLEAN :
            IF appeared
            THEN AwwwReturn("ensure_awww_daemon", sel.n + 1)
            ELSE /\ sel' = AwwwSel("ensure_awww_daemon", sel.n + 1)
                 /\ UNCHANGED <<pc, result>>
     ELSE AwwwReturn("ensure_awww_daemon", sel.n)
  /\ UNCHANGED <<fs, ctx, now, ncmds, fs0, applied>>

\* run_awww_transition up to the retry loop: the first awww call and what
\* its exit decides.
run_awww_transition(config, e, first) ==
  IF \/ ~config.awww_transition \/ ~e.awww
     \/ e.background # "file"
     \/ first # "socket_error"
     \/ ~config.awww_auto_start \/ ~e.daemon
  THEN AwwwReturn("run_awww_transition", 0)
  ELSE /\ pc' = "awww_retry"
       /\ sel' = AwwwSel("run_awww_transition", 0)
       /\ UNCHANGED result

RunAwwwTransition ==
  /\ pc = "idle"
  /\ ncmds < MaxCmds
  /\ ncmds' = ncmds + 1
  /\ \E config \in AwwwConfigs, e \in AwwwEnvs, first \in AwwwOutcomes :
       run_awww_transition(config, e, first)
  /\ UNCHANGED <<fs, ctx, now, fs0, applied>>

\* One iteration of `for _ in 0..60`: sleep, run awww again; success returns,
\* an error that is not about the socket breaks out, a socket error or a
\* failure to run awww goes round again; after the 60th retry the function
\* returns Ok.
RetryAwww ==
  /\ pc = "awww_retry"
  /\ IF sel.n < TRANSITION_RETRIES
     THEN \E retry \in AwwwOutcomes :
            IF retry \in {"success", "other_error"}
            THEN AwwwReturn("run_awww_transition", sel.n + 1)
            ELSE /\ sel' = AwwwSel("run_awww_transition", sel.n + 1)
                 /\ UNCHANGED <<pc, result>>
     ELSE AwwwReturn("run_awww_transition", sel.n)
  /\ UNCHANGED <<fs, ctx, now, ncmds, fs0, applied>>

InitAwww ==
  /\ fs = EmptyFs
  /\ pc = "idle"
  /\ ctx = NoCtx
  /\ result = NoResult
  /\ now = 0
  /\ ncmds = 0
  /\ fs0 = LiveView(fs)
  /\ applied = NoApplied
  /\ sel = AwwwSel("", 0)

NextAwww ==
  \/ EnsureAwwwDaemon
  \/ PollSocket
  \/ RunAwwwTransition
  \/ RetryAwww

SpecAwww == InitAwww /\ [][NextAwww]_vars

\* Both loops run in the calling thread between 50 ms sleeps, so an enabled
\* iteration is eventually executed.
SpecAwwwFair ==
  InitAwww /\ [][NextAwww]_vars /\ WF_vars(PollSocket) /\ WF_vars(RetryAwww)

AwwwRunning == pc \in {"awww_poll", "awww_retry"}

AwwwReturned == pc = "idle" /\ result.status = "ok"

\* C35: ensure_awww_daemon looks for the control socket at most 40 times and
\* run_awww_transition retries at most 60 times, neither ever reports an
\* error, and each of them, once inside its loop, eventually returns even if
\* the socket never appears and every retry fails with a socket error.
C35_AwwwTerminates ==
  /\ [](sel.fn = "ensure_awww_daemon" => sel.n <= SOCKET_POLLS)
  /\ [](sel.fn = "run_awww_transition" => sel.n <= TRANSITION_RETRIES)
  /\ [](result.cmd \in {"ensure_awww_daemon", "run_awww_transition"}
          => result.status = "ok")
  /\ (AwwwRunning ~> AwwwReturned)

\* Both functions have given up after a full run of their loops: the second
\* call returned Ok after 60 failed retries, the first after 40 polls.
C35_Witness ==
  /\ pc = "idle"
  /\ result = Ok("run_awww_transition")
  /\ sel = AwwwSel("run_awww_transition", TRANSITION_RETRIES)
  /\ ncmds = 2


(***************************************************************************)
(* SpecAuto: cmd_set after cmd_set, always with waybar in Auto mode and    *)
(* symlink apply mode, over a theme root where alpha and bravo ship a      *)
(* waybar-theme bundle and ghost does not.                                 *)
(***************************************************************************)
GhostTheme == Tree(<<"themes", "ghost">>, OldTree)

AutoContexts == {[NoCtx EXCEPT !.waybar_mode = "Auto"]}

AutoThemes == {"alpha", "bravo", "ghost"}

InitAuto ==
  /\ fs \in {ThemesFs @@ GhostTheme @@ BundlesFs @@ UserStarship @@ w :
               w \in {EmptyFs, UserWaybar}}
  /\ InitCommon

NextAuto ==
  \/ CmdSetAfter(AutoThemes, AutoContexts)
  \/ StagePrepare
  \/ CopyEntry
  \/ TemplateHook
  \/ RemoveCurrent
  \/ RenameStaging
  \/ WriteThemeName
  \/ ApplyWaybar
  \/ ApplyStarship
  \/ Reload({AllOk})
  \/ HookScript({"ok"})

SpecAuto == InitAuto /\ [][NextAuto]_vars

AfterSuccessfulSets == pc = "idle" /\ ncmds > 0 /\ result = Ok("set")

\* C36: after any sequence of successful cmd_set calls in Auto mode with
\* symlink apply mode, every symlink at the top of the live waybar directory
\* (config.jsonc, style.css, the linked subdirectories) resolves to an
\* existing file or directory.
C36_LiveLinksResolve ==
  AfterSuccessfulSets =>
    \A n \in TopLevelLinks(fs) : exists(fs, Append(WaybarDir, n))


(***************************************************************************)
(* SpecSidecar: cmd_set after cmd_set from states where the sidecar and    *)
(* the live directory agree (nothing live and no sidecar, or a snapshot of *)
(* alpha named by the sidecar), with every step that can fail failing.     *)
(***************************************************************************)
\* write_theme_name returns Err (create_dir_all or fs::write hits an I/O
\* error) and the `?` at line 104 ends cmd_set: the live directory has
\* already been replaced, the sidecar is as it was.
WriteThemeNameFail ==
  /\ pc = "name"
  /\ Fail("write_theme_name")
  /\ UNCHANGED <<fs, ctx, now, ncmds, fs0, sel, applied>>

SidecarLiveStates ==
  { EmptyFs,
    CurrentDir @@ Tree(CurrentThemeLink, AlphaTree) @@ Sidecar("alpha") }

SidecarContexts ==
  { [NoCtx EXCEPT !.skip_apps = TRUE],
    [NoCtx EXCEPT !.waybar_mode = "Auto",
                  !.starship_mode = [m |-> "Theme", v |-> ""]] }

SidecarThemes == {"alpha", "Bravo", "charlie", "ghost"}

InitSidecar ==
  /\ fs \in {ThemesFs @@ BundlesFs @@ UserStarship @@ UserWaybar @@ l :
               l \in SidecarLiveStates}
  /\ InitCommon

NextSidecar ==
  \/ CmdSet(SidecarThemes, SidecarContexts)
  \/ StagePrepare
  \/ CopyEntry
  \/ CopyFail
  \/ TemplateHook
  \/ RemoveCurrent
  \/ RenameStaging
  \/ WriteThemeName
  \/ WriteThemeNameFail
  \/ ApplyWaybar
  \/ ApplyStarship
  \/ Reload(SetEnvs)
  \/ HookScript({"ok"})

SpecSidecar == InitSidecar /\ [][NextSidecar]_vars

\* The installed themes whose tree the live directory holds (next to what
\* the template command rendered).
Materialized(f) ==
  {n \in {"alpha", "bravo"} :
     /\ LKind(f, CurrentThemeLink) = "dir"
     /\ HookFree(LiveTree(f)) = RelTree(f, RealPath(f, Join(ThemeRootDir, n)))}

SidecarNamesLive(f) ==
  (lexists(f, CurrentThemeLink) \/ lexists(f, ThemeNameFile))
    => /\ is_file(f, ThemeNameFile)
       /\ \E n \in Materialized(f) : read_to_string(f, ThemeNameFile) = <<n>>

\* C37: whenever cmd_set has returned, with success or with an error, the
\* theme.name sidecar names the theme whose tree is in the live
\* current-theme directory.
C37_SidecarNamesLive ==
  (pc = "idle" /\ result.status \in {"ok", "err"}) => SidecarNamesLive(fs)


(***************************************************************************)
(* SpecCycle: cmd_next after cmd_next with skip_apps set, starting with a  *)
(* listed theme active, over a theme root of two sound entries (alpha, a   *)
(* directory, and bravo, a link to an installed theme) and over the same   *)
(* root with charlie, a link whose target is gone.                         *)
(***************************************************************************)
SoundThemesFs == Without(ThemesFs, <<"themes", "charlie">>)

CycleLiveStates ==
  { CurrentDir @@ Tree(CurrentThemeLink, AlphaTree) @@ Sidecar("alpha"),
    CurrentDir @@ Tree(CurrentThemeLink, BravoTree) @@ Sidecar("bravo") }

InitCycle ==
  /\ fs \in {t @@ l : t \in {SoundThemesFs, ThemesFs}, l \in CycleLiveStates}
  /\ InitCommon

NextCycle ==
  \/ CmdNext({[NoCtx EXCEPT !.skip_apps = TRUE]})
  \/ StagePrepare
  \/ CopyEntry
  \/ TemplateHook
  \/ RemoveCurrent
  \/ RenameStaging
  \/ WriteThemeName
  \/ HookScript({"ok"})

SpecCycle == InitCycle /\ [][NextCycle]_vars

\* cmd_next has returned and the template command did not fail under it.
NextReturned == pc = "idle" /\ ctx.cmd = "next" /\ ctx.hook # "fail"

\* The entry after name in the sorted list of the entries S, cyclically.
Successor(S, name) == Ranked(S, (Rank(S, name) % Cardinality(S)) + 1)

\* C38: every cmd_next over a theme root succeeds and makes the cyclic
\* successor of the theme that was active the active theme, so that N calls
\* in a row over N listed entries make each entry active once and end on
\* the theme they started from.
C38_NextCycles ==
  NextReturned
    => /\ result = Ok("next")
       /\ SidecarName(fs) = Successor(ThemeEntries(fs), SidecarName(fs0))


(***************************************************************************)
(* SpecEntry: cmd_set with skip_apps set over a theme root where alpha is  *)
(* a theme directory, charlie a regular file and ghost a symlink to a      *)
(* regular file.                                                           *)
(***************************************************************************)
EntryThemesFs ==
  Tree(<<"themes">>, {<<<<>>, DirNode>>,
                      <<<<"charlie">>, FileNode(<<"notes">>)>>,
                      <<<<"ghost">>, LinkNode(<<"store", "notes">>)>>})
  @@ Tree(<<"themes", "alpha">>, AlphaTree)
  @@ Tree(<<"store">>, {<<<<>>, DirNode>>, <<<<"notes">>, FileNode(<<"notes">>)>>})

EntryLiveStates ==
  { EmptyFs,
    CurrentDir @@ Tree(CurrentThemeLink, OldTree) @@ Sidecar("bravo") }

InitEntry ==
  /\ fs \in {EntryThemesFs @@ l : l \in EntryLiveStates}
  /\ InitCommon

NextEntryTheme ==
  \/ CmdSet({"alpha", "charlie", "ghost"}, {[NoCtx EXCEPT !.skip_apps = TRUE]})
  \/ StagePrepare
  \/ CopyEntry
  \/ TemplateHook
  \/ RemoveCurrent
  \/ RenameStaging
  \/ WriteThemeName
  \/ HookScript({"ok"})

SpecEntry == InitEntry /\ [][NextEntryTheme]_vars

\* The live current-theme tree and theme.name are as the command found them.
LiveUntouched ==
  \A q \in (DOMAIN fs \cup DOMAIN fs0) :
    (q = ThemeNameFile \/ IsPrefix(CurrentThemeLink, q))
      => q \in DOMAIN fs /\ q \in DOMAIN fs0 /\ fs[q] = fs0[q]

\* C39: a cmd_set whose theme entry does not resolve to a directory (a
\* regular file, or a symlink to something that is no directory) returns an
\* error and leaves the live current-theme directory and theme.name as they
\* were.
C39_OnlyDirectoriesReplace ==
  (pc = "idle" /\ ctx.cmd = "set" /\ ~is_dir(fs, Join(ThemeRootDir, ctx.normalized)))
    => result.status = "err" /\ LiveUntouched


(***************************************************************************)
(* SpecHost: hyprlock apply after hyprlock apply, over a host hyprlock.conf*)
(* the engine manages (none, an empty one, one that sources the current    *)
(* theme) and an Omarchy installation without a wrapper, with a wrapper    *)
(* that sources the current theme, or with one that does not.  The live    *)
(* theme's own bundle is a full layout, the named bundle "shared" holds    *)
(* style variables only.                                                   *)
(***************************************************************************)
OmarchyWrapper == OmarchyRoot \o <<"config", "hypr", "hyprlock.conf">>

WrapperStates ==
  { DirAt(OmarchyRoot),
    FileAt(OmarchyWrapper, <<CURRENT_THEME_SOURCE_LINE, "# wrapper", "input-field {">>),
    FileAt(OmarchyWrapper, <<"source = ~/.config/omarchy/current/theme/colors.conf",
                             "# wrapper", "input-field {">>) }

ManagedHostStates ==
  { DirAt(HyprlockDir),
    FileAt(HyprlockMain, <<>>),
    FileAt(HyprlockMain, <<CURRENT_THEME_SOURCE_LINE, "general {">>) }

HostContexts ==
  { [NoCtx EXCEPT !.hyprlock_mode = m[1], !.hyprlock_name = m[2], !.hyprlock_apply_mode = a] :
      m \in {<<"Auto", None>>, <<"Named", Some("shared")>>},
      a \in {"symlink", "copy"} }

InitHost ==
  /\ fs \in { CurrentDir @@ Tree(CurrentThemeLink, FullTheme) @@ Sidecar("alpha") @@ h @@ w
                @@ NamedBundles @@ ThemesFs :
              h \in ManagedHostStates, w \in WrapperStates }
  /\ InitCommon

\* apply_hyprlock_only, run again from the state the apply before it left.
CmdHyprlockAgain(ctxs) ==
  /\ pc = "idle"
  /\ ncmds < MaxCmds
  /\ \E c \in ctxs, restart_ok \in BOOLEAN : apply_hyprlock_only(c, restart_ok)

NextHost == CmdHyprlockAgain(HostContexts)

SpecHost == InitHost /\ [][NextHost]_vars

\* The step is a hyprlock apply that wrote the host hyprlock.conf.
HostWritten ==
  /\ HyprlockApplied(ctx')
  /\ HyprlockMain \in DOMAIN fs'
  /\ HyprlockMain \notin DOMAIN fs \/ fs'[HyprlockMain] # fs[HyprlockMain]

\* The step is a hyprlock apply of the live theme's own full-layout bundle.
FullLayoutApplied == HyprlockApplied(ctx') /\ ctx'.hyprlock_mode = "Auto"

\* C40: a host hyprlock.conf the engine wrote contains the current-theme
\* source path, and an apply of a full-layout theme over a host file the
\* engine wrote earlier leaves the minimal host config.
C40_HostStaysManaged ==
  /\ [][HostWritten => SourcesCurrentTheme(fs'[HyprlockMain].c)]_vars
  /\ [][FullLayoutApplied
          => /\ HyprlockMain \in DOMAIN fs'
             /\ fs'[HyprlockMain].c = MINIMAL_SOURCE_ONLY_HYPRLOCK]_vars
====
